---- MODULE Spec2Model ----
(***************************************************************************)
(* ymaps_excel_export: one pipeline run.                                   *)
(*   pipeline.run -> yandex_api.search_bbox (paged search with retries),   *)
(*                   or the live browser / the saved pages as the source   *)
(*                -> web_enrich.enrich_companies_web (requests, then the   *)
(*                   SeleniumPool render path when the fetch is blocked)   *)
(*                -> excel_writer.save_to_excel                            *)
(* Spec is the run. MergeSpec applies the extraction and merge functions   *)
(* of web_enrich, and the enrichment chain of pipeline.run, to one record. *)
(* ParseSpec applies the parsers of yandex_api (company_from_feature,      *)
(* _format_rating_1), utils.normalize_phone_ru and requests_is_blocked to  *)
(* one input. FairSpec is Spec with the run always taking its next step.   *)
(* Strings that the code inspects character by character (organization     *)
(* IDs) are sequences of one-character strings; the empty string is <<>>.  *)
(***************************************************************************)
EXTENDS Integers, Sequences, FiniteSets, TLC

\* ------------------------------------------------------------------ bounds
\* the provider serves at most MaxPages full pages in one search
MaxPages == 3
\* features of a page that are enumerated one by one; the rest of a page is
\* padding (features without an organization id)
MaxFeat == 2

\* ------------------------------------------------------- program constants
API_MAX_SKIP == 1000
MaxAttempts == 6
NoLimit == 1000000000
\* a retry set without 429
RetryStatuses_No429 == {500, 502, 503, 504}
_RETRY_STATUSES == {429, 500, 502, 503, 504}

\* ------------------------------------------------------------ input domains
Ids == {<<"1">>, <<"2">>, <<"x", "7">>}
Digits == {"0", "1", "2", "3", "4", "5", "6", "7", "8", "9"}
ApiKeys == {"", "KEY"}
MaxSkipValues == {0, 1, 2, 1000}
ResultsPerPageValues == {2, 500}
EnrichModes == {"NONE", "WEB"}
OverwriteValues == {TRUE}
KeepOpenValues == BOOLEAN
CloseExistingValues == BOOLEAN
NewTabValues == {TRUE}
ReturnTabValues == {TRUE}
WebMaxItemsValues == {0, 1}
Statuses == {200, 400, 403, 404, 429, 500, 501}
Failures == {"Timeout", "ConnectionError"}

Min(a, b) == IF a < b THEN a ELSE b

BoundedSeq(S, n) == UNION {[1..k -> S] : k \in 0..n}

\* a feature of a page: not a dict, a dict company_from_feature fails on,
\* or a dict with CompanyMetaData.id = id (<<>> when the id is missing)
FeatureSet ==
    {[kind |-> "notdict", id |-> <<>>], [kind |-> "malformed", id |-> <<>>]}
    \cup {[kind |-> "ok", id |-> i] : i \in Ids \cup {<<>>}}

\* requests.Response.reason for the statuses of the model
Reason(status) ==
    CASE status = 200 -> "OK"
      [] status = 400 -> "Bad Request"
      [] status = 403 -> "Forbidden"
      [] status = 404 -> "Not Found"
      [] status = 429 -> "Too Many Requests"
      [] status = 500 -> "Internal Server Error"
      [] status = 501 -> "Not Implemented"
      [] OTHER -> ""

\* bodies of an error response: plain text, or the provider's JSON error
\* object, whose statusCode (0: key absent) repeats the HTTP status
NoJson == [json |-> FALSE, statusCode |-> 0, error |-> "", message |-> "", text |-> "plain body"]
ErrorBodies(status) ==
    {NoJson,
     [json |-> TRUE, statusCode |-> status, error |-> "ProviderError",
      message |-> "Invalid apikey", text |-> "{...}"]}
    \cup (IF status = 404
          THEN {[json |-> TRUE, statusCode |-> 0, error |-> "",
                 message |-> "request timeout", text |-> "{...}"]}
          ELSE {})

\* message.lower() contains "timeout"
HasTimeout(message) == message \in {"request timeout"}

VARIABLES
    st,             \* Settings of the run
    pc,             \* position of the run
    out, seen, err, meta, skip, cur_results, max_total, page_size,  \* search_bbox
    params,         \* params of the page request in flight
    attempt, backoff, last_err,      \* _get_json_with_retries
    gets,           \* session.get calls of the page request in flight
    pages_ok,       \* page requests that returned a body
    page_sleeps,    \* time.sleep(st.SLEEP_SEC) calls of search_bbox
    backoff_sleeps, \* durations slept by the page request in flight
    short_page,     \* a page came back with fewer features than requested
    dup_dropped,    \* a feature was dropped because its ID was already seen
    last_resp,      \* the response the last session.get produced
    companies, request_meta,         \* pipeline.run
    workbook,       \* what save_to_excel wrote, and how many times
    pool,           \* the SeleniumPool of the enrichment (pipeline.run line 176)
    close_calls,    \* calls of close() on that pool
    live_pool,      \* the SeleniumPool of collect_companies_from_selenium_live_maps
    chrome,         \* the browser side: processes and tabs
    last_call,      \* what the last ensure or get_page_html call did
    last_close,     \* what the last close() call of pipeline.run did
    stats, idx, done,                \* enrich_companies_web
    fetch_attempt,  \* attempt of http_get_org_page
    web_sleeps,     \* tenths of a second slept by http_get_org_page for the organization
    fetched,        \* (final_url, html) http_get_org_page returned
    render_calls,   \* pool.get_page_html calls for the current organization
    parsed,         \* the html the extraction of the current organization read
    fn              \* a function of web_enrich applied on its own: arguments and result

searchVars == <<out, seen, err, meta, skip, cur_results, max_total, page_size,
                params, attempt, backoff, last_err, gets, pages_ok,
                page_sleeps, backoff_sleeps, short_page, dup_dropped, last_resp>>

runVars == <<companies, request_meta, workbook>>

browserVars == <<live_pool, chrome, last_call, last_close>>

enrichVars == <<pool, close_calls, browserVars, stats, idx, done, fetch_attempt, web_sleeps, fetched,
                render_calls, parsed>>

programVars == <<st, pc, searchVars, runVars, enrichVars>>

vars == <<programVars, fn>>

\* ------------------------------------------------------------ error strings
\* an error string is kept by its parts; EmptyStr is ""
EmptyStr == [text |-> "", status |-> 0, error |-> "", message |-> "", hint |-> ""]
KeyEmptyErr == [text |-> "YMAPIKEY is empty", status |-> 0, error |-> "", message |-> "", hint |-> ""]
NoLastErr == [status |-> 0, text |-> ""]
NoResp == [kind |-> "none", status |-> 0, exc |-> "", body |-> NoJson, json_ok |-> FALSE]
NoParams == [results |-> 0, skip |-> 0]
NoMeta == [stopped_by |-> "", total |-> 0, unique |-> 0, page_size_effective |-> 0,
           max_total_effective |-> 0]

_human_api_hint(status, message) ==
    IF status = 400 THEN "400 Bad Request"
    ELSE IF status = 403 THEN "403 Forbidden"
    ELSE IF status = 429 THEN "429 Too Many Requests"
    ELSE IF status >= 500 THEN "5xx"
    ELSE IF HasTimeout(message) THEN "Timeout"
    ELSE "unknown API error"

\* the message of the HTTPError _raise_api_http_error raises for response r
_raise_api_http_error(r) ==
    LET useJson == r.body.json
        status == IF useJson /\ r.body.statusCode # 0 THEN r.body.statusCode ELSE r.status
        error == IF useJson /\ r.body.error # "" THEN r.body.error ELSE Reason(r.status)
        message == IF useJson /\ r.body.message # "" THEN r.body.message ELSE r.body.text
    IN [text |-> "Yandex API error", status |-> status, error |-> error,
        message |-> message, hint |-> _human_api_hint(status, message)]

RetryFailed(last) ==
    [text |-> "retry_failed", status |-> last.status, error |-> "",
     message |-> last.text, hint |-> ""]

JsonDecodeErr == [text |-> "JSONDecodeError", status |-> 0, error |-> "", message |-> "", hint |-> ""]

\* --------------------------------------------------------------- companies
\* a raw_json text by what json.loads makes of it: the empty string, a text
\* that does not parse, a value that is not an object, or an object with its
\* keys
EmptyJson == [form |-> "empty", keys |-> {}]
ObjectJson(keys) == [form |-> "object", keys |-> keys]
\* json_dumps_safe(feature) of company_from_feature
FeatureJson == ObjectJson({"properties"})

\* raw_json["web_enrich"] of a record that was not enriched
NoTrace == [ok |-> FALSE, used_selenium |-> FALSE, changed |-> 0]

\* company_from_feature returns None for a feature it raises on
CompanyFails(f) == f.kind = "malformed"
company_from_feature(f) ==
    [ID |-> f.id, Site |-> "", Rejting |-> "", Kolichestvo_otzyvov |-> "",
     Rezhim_raboty |-> "", raw_json |-> FeatureJson, web_enrich |-> NoTrace]

\* the loop over the features of one page: rows and seen after the features fs
\* a search that never treats an ID as seen
AlreadySeen_NoDedup(id, seenIds) == FALSE

\* line 407: "if c.ID in seen"
AlreadySeen(id, seenIds) == id \in seenIds

RECURSIVE PageRows(_, _, _, _)
PageRows(fs, rows, seenIds, dups) ==
    IF fs = <<>> THEN [rows |-> rows, seen |-> seenIds, dups |-> dups]
    ELSE LET f == Head(fs)
             c == company_from_feature(f)
         IN IF f.kind = "notdict" THEN PageRows(Tail(fs), rows, seenIds, dups)
            ELSE IF CompanyFails(f) \/ c.ID = <<>> THEN PageRows(Tail(fs), rows, seenIds, dups)
            ELSE IF AlreadySeen(c.ID, seenIds) THEN PageRows(Tail(fs), rows, seenIds, dups + 1)
            ELSE PageRows(Tail(fs), Append(rows, c), seenIds \cup {c.ID}, dups)

\* len(features) of a page: the enumerated features and the padding
PageLen(page) == Len(page.feats) + page.pad

\* the page bodies the provider can send for a request of n results: at most
\* n features; a full page only while fewer than MaxPages full pages were sent
Pages(n, fullAllowed) ==
    {[feats |-> fs, pad |-> k - Len(fs)] :
        <<fs, k>> \in {p \in BoundedSeq(FeatureSet, MaxFeat) \X {0, 1, n - 1, n} :
                         /\ p[2] >= Len(p[1])
                         /\ p[2] <= n
                         /\ (p[2] = n => fullAllowed)}}

\* ---------------------------------------------------------------- responses
NoPage == [feats |-> <<>>, pad |-> 0]

\* what one session.get can produce: an exception, or a response with a status
FailureResponses ==
    {[kind |-> "failure", status |-> 0, exc |-> e, body |-> NoJson, json_ok |-> FALSE] : e \in Failures}
ErrorResponses ==
    UNION {{[kind |-> "http", status |-> s, exc |-> "", body |-> b, json_ok |-> b.json] :
               b \in ErrorBodies(s)} : s \in Statuses \ {200}}
OkResponse(json_ok) ==
    [kind |-> "http", status |-> 200, exc |-> "", body |-> NoJson, json_ok |-> json_ok]

\* ------------------------------------------------------------- search_bbox
\* a search that does not look at the key
KeyMissing_Ignored(s) == FALSE

\* line 351: "if not st.YMAPIKEY"
KeyMissing(s) == s.YMAPIKEY = ""

\* lines 358-361
MaxTotal(s) == IF s.MAX_SKIP > 0 THEN s.MAX_SKIP ELSE NoLimit
PageSize(s) ==
    IF s.MAX_SKIP > 0 /\ s.RESULTS_PER_PAGE > s.MAX_SKIP THEN s.MAX_SKIP
    ELSE s.RESULTS_PER_PAGE

\* a loop that does not look at the offset
LoopGuard_NoCeiling(sk, n, mt) == n < mt

\* line 382: the loop condition
LoopGuard(sk, n, mt) == sk <= API_MAX_SKIP /\ n < mt

\* a request that always asks for a whole page
CurResults_WholePage(ps, mt, n) == ps

\* lines 383-384
CurResults(ps, mt, n) == Min(ps, mt - n)

\* a retry loop that also retries every status >= 400
IsTransient_AllErrors(r) ==
    \/ r.kind = "failure"
    \/ r.kind = "http" /\ r.status >= 400

\* line 74 and line 85: the outcomes _get_json_with_retries retries
IsTransient(r) ==
    \/ r.kind = "failure"
    \/ r.kind = "http" /\ r.status \in _RETRY_STATUSES

\* an end-of-results test that is off by one
IsLastPage_OffByOne(nfeatures, requested) == nfeatures + 1 < requested

\* line 418: the page that ends the search
IsLastPage(nfeatures, requested) == nfeatures < requested

\* lines 424-428
StoppedBy(sk, n, mt, e) ==
    IF sk > API_MAX_SKIP /\ n < mt /\ e = EmptyStr THEN "api_skip_limit" ELSE "normal"

\* no function of web_enrich is applied on its own
NoFn == [op |-> "", stage |-> ""]

\* ------------------------------------------------------------ pipeline.run
NoRequestMeta == [error |-> EmptyStr, partial |-> FALSE, api_meta |-> NoMeta,
                  enrich_stats |-> "", saved |-> FALSE, rows |-> 0]
NoWorkbook == [saves |-> 0, companies |-> <<>>, request_meta |-> NoRequestMeta]

\* ------------------------------------------------------------ SeleniumPool
\* browser processes: none (None), a debug browser that was running before
\* the program needed one, and the n-th process launched by a pool
NoProc == <<>>
ExtChrome == <<"ext">>
Launched(owner, n) == <<owner, n>>

\* SeleniumPool.__init__; driver holds the browser the driver is connected to
NoPool == [driver |-> NoProc, proc |-> NoProc, started_by_us |-> FALSE,
           keep_chrome_open |-> FALSE]

\* the browser side: the processes that run, how many were launched, and the
\* tabs get_page_html opened and left open
NoChrome == [running |-> {}, launched |-> 0, tabs |-> 0, on_original |-> TRUE]

\* a close() that also terminates a browser it is only attached to
CloseTerminates_Attached(p, close_existing) ==
    IF p.keep_chrome_open THEN {}
    ELSE IF p.started_by_us /\ p.proc # NoProc THEN {p.proc}
    ELSE IF ~p.started_by_us /\ close_existing THEN {p.driver} \ {NoProc}
    ELSE {}

\* SeleniumPool.close lines 182-203: the processes it terminates (or kills)
CloseTerminates(p, close_existing) ==
    IF p.keep_chrome_open THEN {}
    ELSE IF p.started_by_us /\ p.proc # NoProc THEN {p.proc}
    ELSE {}

\* SeleniumPool.close lines 205-206: the warning is logged
CloseWarns(p, close_existing) ==
    /\ ~p.keep_chrome_open
    /\ ~(p.started_by_us /\ p.proc # NoProc)
    /\ ~p.started_by_us /\ close_existing

\* SeleniumPool.close: the pool after the call
Close(p) ==
    IF p.keep_chrome_open THEN [p EXCEPT !.driver = NoProc, !.proc = NoProc]
    ELSE IF p.started_by_us /\ p.proc # NoProc
    THEN [p EXCEPT !.driver = NoProc, !.proc = NoProc]
    ELSE [p EXCEPT !.driver = NoProc]

\* the record of the close() call pipeline.run makes
NoClose == [called |-> FALSE, pool |-> NoPool, terminated |-> {}, warned |-> FALSE]

\* what the browser side does during one ensure / get_page_html call:
\* the executable exists, the launched browser answers within
\* CHROME_START_TIMEOUT_SEC, webdriver.Chrome returns a driver, the page shows
\* a challenge, and the challenge is still there after the pause
RenderEnvs ==
    [exe_exists : BOOLEAN, ready : BOOLEAN, connect_ok : BOOLEAN,
     challenge : BOOLEAN, still_challenge : BOOLEAN]

\* is_debug_chrome_alive: the browsers that can answer the probe (NoProc: none)
Probes(ch) == IF ch.running = {} THEN {NoProc} ELSE ch.running

\* errors of a browser launch
ExeMissing == "chrome.exe not found"
NotReady == "debug chrome did not become ready"
ConnectFailed == "webdriver.Chrome raised"
LaunchErrors == {ExeMissing, NotReady}

\* the record of one ensure or get_page_html call; blocked holds the results
\* of its selenium_is_blocked checks
NoCall == [called |-> FALSE, had_driver |-> FALSE, probed |-> FALSE, alive |-> FALSE,
           launch_called |-> FALSE, spawned |-> NoProc, answered |-> FALSE,
           connected |-> FALSE, raised |-> "", closes |-> 0,
           terminated |-> {}, warned |-> FALSE,
           navs |-> 0, blocked |-> <<>>, pauses |-> 0,
           opened_new_tab |-> FALSE, closed_tab |-> FALSE]

\* an ensure() that creates the driver without waiting for the endpoint
WaitFailed_Ignored(env) == FALSE

\* ensure line 107: wait_debug_chrome returned False
WaitFailed(env) == ~env.ready

\* SeleniumPool.ensure lines 111-116: webdriver.Chrome on the browser target
Connect(p, ch, target, env, call) ==
    IF env.connect_ok
    THEN [pool |-> [p EXCEPT !.driver = target], chrome |-> ch,
          call |-> [call EXCEPT !.connected = TRUE]]
    ELSE [pool |-> p, chrome |-> ch, call |-> [call EXCEPT !.raised = ConnectFailed]]

\* SeleniumPool.ensure: the pool and the browser side after the call and the
\* record of what the call did (raised is "" when it returned)
Ensure(p, ch, probe, env, owner, close_existing) ==
    LET c0 == [NoCall EXCEPT !.called = TRUE]
    IN IF p.driver # NoProc
       THEN [pool |-> p, chrome |-> ch, call |-> [c0 EXCEPT !.had_driver = TRUE]]
       ELSE IF probe # NoProc
       THEN Connect([p EXCEPT !.started_by_us = FALSE], ch, probe, env,
                    [c0 EXCEPT !.probed = TRUE, !.alive = TRUE])
       ELSE IF ~env.exe_exists
       THEN [pool |-> p, chrome |-> ch,
             call |-> [c0 EXCEPT !.probed = TRUE, !.launch_called = TRUE,
                                 !.raised = ExeMissing]]
       ELSE LET pid == Launched(owner, ch.launched + 1)
                q == [p EXCEPT !.proc = pid, !.started_by_us = TRUE]
                ch1 == [ch EXCEPT !.running = @ \cup {pid}, !.launched = @ + 1]
                c1 == [c0 EXCEPT !.probed = TRUE, !.launch_called = TRUE,
                                 !.spawned = pid]
            IN IF WaitFailed(env)
               THEN [pool |-> Close(q),
                     chrome |-> [ch1 EXCEPT !.running =
                                    @ \ CloseTerminates(q, close_existing)],
                     call |-> [c1 EXCEPT !.raised = NotReady, !.closes = 1,
                                         !.terminated = CloseTerminates(q, close_existing),
                                         !.warned = CloseWarns(q, close_existing)]]
               ELSE Connect(q, ch1, pid, env, [c1 EXCEPT !.answered = env.ready])

\* a get_page_html that raises as soon as it sees a challenge
ChallengeRaises_AtOnce(env) == env.challenge

\* get_page_html lines 148-153: the call raises "Challenge still present"
ChallengeRaises(env) == env.challenge /\ env.still_challenge

\* get_page_html lines 168-176: the new tab is closed and the original tab is
\* active again
TabClosed(opened, raised, return_to_original) ==
    opened /\ ~raised /\ return_to_original

\* SeleniumPool.get_page_html lines 129-178 once ensure has returned: the
\* browser side after the call and the record of the call
Visit(ch, env, call, open_in_new_tab, return_to_original) ==
    LET raised == ChallengeRaises(env)
        closed == TabClosed(open_in_new_tab, raised, return_to_original)
        left == open_in_new_tab /\ ~closed
    IN [chrome |-> [ch EXCEPT !.tabs = IF left THEN @ + 1 ELSE @,
                              !.on_original = IF left THEN FALSE ELSE @],
        call |-> [call EXCEPT !.navs = 1,
                              !.blocked = IF env.challenge
                                          THEN <<TRUE, env.still_challenge>>
                                          ELSE <<FALSE>>,
                              !.pauses = IF env.challenge THEN 1 ELSE 0,
                              !.opened_new_tab = open_in_new_tab,
                              !.closed_tab = closed,
                              !.raised = IF raised THEN "Challenge still present" ELSE ""]]

\* -------------------------------------------------------------- web_enrich
WEB_RETRY_STATUSES == {429, 500, 502, 503, 504}
WebMaxAttempts == 3
WebStatuses == {200, 404, 503}

\* python's "a or b" on two strings
FirstOf(a, b) == IF a # "" THEN a ELSE b

\* (rating_value, rating_count, review_count) of one extractor
RatingFields == {"rating", "rating_count", "review_count"}
NoCounts == [rating |-> "", rating_count |-> "", review_count |-> ""]
\* the counts that hold v for the field f alone
Only(f, v) == [NoCounts EXCEPT ![f] = v]

\* an organization page: where it came from, the challenge markers in its
\* body, the site and the opening hours the extractors find in it, and what
\* each source of ratings holds: the aggregateRating of the JSON-LD blocks
\* (ld), the keys of the embedded script JSON (emb), the DOM elements of the
\* rating view (dom) and the first match of the regular expressions over the
\* raw markup (rx)
NoDoc == [origin |-> "", markers |-> {}, site |-> "", worktime |-> "",
          ld |-> NoCounts, emb |-> NoCounts, dom |-> NoCounts, rx |-> NoCounts]
FastDocs ==
    {[NoDoc EXCEPT !.origin = "requests", !.site = "https://fast.example"],
     [NoDoc EXCEPT !.origin = "requests", !.ld = Only("rating_count", "15"),
                   !.rx = Only("rating_count", "15")],
     [NoDoc EXCEPT !.origin = "requests", !.markers = {"form"},
                   !.site = "https://captcha.example"]}
RenderedDocs ==
    {[NoDoc EXCEPT !.origin = "selenium", !.site = "https://rendered.example"],
     [NoDoc EXCEPT !.origin = "selenium", !.ld = Only("rating_count", "15"),
                   !.rx = Only("rating_count", "15")]}

NoFetch == [showcaptcha |-> FALSE, html |-> NoDoc]
\* (final_url, html) of a fetch: final_url is kept by whether it contains
\* "showcaptcha"
FetchResults ==
    {[showcaptcha |-> FALSE, html |-> d] : d \in FastDocs}
    \cup {[showcaptcha |-> TRUE, html |-> d] :
             d \in {x \in FastDocs : x.site = "https://fast.example"}}

\* a test that looks at the final URL alone
requests_is_blocked_UrlOnly(final_url_showcaptcha, html) == final_url_showcaptcha

\* requests_is_blocked: "showcaptcha" in the final URL, a form whose action
\* holds "showcaptcha", an iframe whose src holds "captcha", or the phrase of
\* the challenge page in the text of the body
requests_is_blocked(final_url_showcaptcha, html) ==
    \/ final_url_showcaptcha
    \/ "form" \in html.markers
    \/ "iframe" \in html.markers
    \/ "phrase" \in html.markers

\* str.isdigit() of an id
IsDigit(oid) == oid # <<>> /\ \A k \in 1..Len(oid) : oid[k] \in Digits

\* safe_str on the strings of the model: "" stands for None as well, and the
\* strings with blanks around them are stripped
safe_str(x) ==
    CASE x = " " -> ""
      [] x = " new " -> "new"
      [] OTHER -> x

\* a merge that writes over every current value
KeepsCurrent_Never(cur, overwrite) == FALSE

\* set_if_needed lines 394-395: "if cur and not overwrite: return 0"
KeepsCurrent(cur, overwrite) == cur # "" /\ ~overwrite

\* set_if_needed: the record after the call, the change count, and whether
\* getattr raised AttributeError (the record has no such field)
set_if_needed(c, attr, value, overwrite) ==
    LET val == safe_str(value)
    IN IF val = "" THEN [c |-> c, changed |-> 0, raised |-> FALSE]
       ELSE IF attr \notin DOMAIN c THEN [c |-> c, changed |-> 0, raised |-> TRUE]
       ELSE IF KeepsCurrent(safe_str(c[attr]), overwrite)
       THEN [c |-> c, changed |-> 0, raised |-> FALSE]
       ELSE [c |-> [c EXCEPT ![attr] = val], changed |-> 1, raised |-> FALSE]

\* parse_rating_counts_from_jsonld: the aggregateRating of the JSON-LD blocks
\* and, for a field they do not give, the regular expressions over the markup
parse_rating_counts_from_jsonld(html) ==
    [f \in RatingFields |-> FirstOf(html.ld[f], html.rx[f])]

\* parse_rating_counts_from_embedded_json: the keys of the embedded JSON and,
\* for a field they do not give, the same regular expressions
parse_rating_counts_from_embedded_json(html) ==
    [f \in RatingFields |-> FirstOf(html.emb[f], html.rx[f])]

\* parse_counts_from_dom returns (rating_count, review_count) only
parse_counts_from_dom(html) ==
    [rating_count |-> html.dom.rating_count, review_count |-> html.dom.review_count]

\* enrich_company_from_web lines 418-431: the three values after the three
\* numbered steps
RatingCounts(html) ==
    LET r1 == parse_rating_counts_from_jsonld(html)
        r2 == IF \E f \in RatingFields : r1[f] = ""
              THEN parse_rating_counts_from_embedded_json(html)
              ELSE NoCounts
        d == parse_counts_from_dom(html)
    IN [rating |-> FirstOf(r1.rating, r2.rating),
        rating_count |-> FirstOf(FirstOf(r1.rating_count, r2.rating_count), d.rating_count),
        review_count |-> FirstOf(FirstOf(r1.review_count, r2.review_count), d.review_count)]

\* json.loads: None and the parsed value, or the exception
json_loads(text) ==
    [raised |-> text.form \in {"empty", "malformed"},
     dict |-> text.form = "object",
     keys |-> IF text.form = "object" THEN text.keys ELSE {}]

\* json_dumps_safe of a dict with these keys
json_dumps_safe(keys) == ObjectJson(keys)

\* a trace that drops what raw_json held
raw_json_trace_Replaced(text) == json_dumps_safe({"web_enrich"})

\* enrich_company_from_web lines 458-477: raw_json after the trace update
raw_json_trace(text) ==
    LET j == json_loads(IF text.form = "empty" THEN ObjectJson({}) ELSE text)
        raw == IF j.raised THEN {"raw_json_parse_error", "raw_json_raw"}
               ELSE IF ~j.dict THEN {"raw_json_not_dict"}
               ELSE j.keys
    IN json_dumps_safe(raw \cup {"web_enrich"})

\* a merge of the opening hours under the policy of the run
WorktimeOverwrite_RunPolicy(overwrite) == overwrite

\* line 455: set_if_needed(c, "Rezhim_raboty", worktime, overwrite=False)
WorktimeOverwrite(overwrite) == FALSE

\* the set_if_needed calls of lines 438-455 one after the other, up to the
\* first that raises
RECURSIVE SetAll(_, _, _)
SetAll(c, writes, changed) ==
    IF writes = <<>> THEN [c |-> c, changed |-> changed, raised |-> FALSE]
    ELSE LET w == Head(writes)
             r == set_if_needed(c, w.attr, w.value, w.overwrite)
         IN IF r.raised THEN [c |-> c, changed |-> changed, raised |-> TRUE]
            ELSE SetAll(r.c, Tail(writes), changed + r.changed)

\* enrich_company_from_web from line 416 on, reading html
Extract(c, html, used_selenium, overwrite) ==
    LET r == RatingCounts(html)
        m == SetAll(c,
                    <<[attr |-> "Site", value |-> html.site, overwrite |-> overwrite],
                      [attr |-> "Rejting", value |-> r.rating, overwrite |-> overwrite],
                      [attr |-> "Kolichestvo_ocenok", value |-> r.rating_count,
                       overwrite |-> overwrite],
                      [attr |-> "Kolichestvo_otzyvov", value |-> r.review_count,
                       overwrite |-> overwrite],
                      [attr |-> "Rezhim_raboty", value |-> html.worktime,
                       overwrite |-> WorktimeOverwrite(overwrite)]>>,
                    0)
    IN IF m.raised THEN [c |-> m.c, raised |-> TRUE]
       ELSE [c |-> [m.c EXCEPT !.raw_json = raw_json_trace(@),
                               !.web_enrich = [ok |-> TRUE,
                                               used_selenium |-> used_selenium,
                                               changed |-> m.changed]],
             raised |-> FALSE]

\* the attributes _apply_uri_requery_if_needed fills, in the order of lines
\* 87-108
ApiAttrs == <<"Site", "Rezhim_raboty", "Rejting", "Kolichestvo_ocenok",
              "Kolichestvo_otzyvov">>

\* fill_if_empty over attrs: getattr(c, attr) raises AttributeError for an
\* attribute the record does not have, and the fields after it stay as they are
RECURSIVE FillAll(_, _, _, _)
FillAll(c, c2, attrs, changed) ==
    IF attrs = <<>> THEN [c |-> c, changed |-> changed, raised |-> FALSE]
    ELSE LET a == Head(attrs)
         IN IF a \notin DOMAIN c THEN [c |-> c, changed |-> changed, raised |-> TRUE]
            ELSE IF safe_str(c[a]) # "" \/ safe_str(c2[a]) = ""
            THEN FillAll(c, c2, Tail(attrs), changed)
            ELSE FillAll([c EXCEPT ![a] = c2[a]], c2, Tail(attrs), changed + 1)

NoStats == [attempted |-> 0, success |-> 0, failed |-> 0, skipped |-> 0, errors |-> <<>>]

\* an enrichment that returned and is not counted
Succeeded_Uncounted(s) == s

\* line 511 of enrich_companies_web
Succeeded(s) == [s EXCEPT !.success = @ + 1]

\* a failure that is counted without its error string
Failed_NoError(s, oid, text) == [s EXCEPT !.failed = @ + 1]

\* lines 513-514 of enrich_companies_web
Failed(s, oid, text) ==
    [s EXCEPT !.failed = @ + 1, !.errors = Append(@, [oid |-> oid, text |-> text])]

\* the Settings a run starts with: the search settings vary without
\* enrichment; the enrichment settings vary over searches of at most two
\* organizations (MAX_SKIP = 2), CLOSE_EXISTING_DEBUG_CHROME over searches of
\* one organization (MAX_SKIP = 1), and the browser settings in the modes
\* without a search
Modes == {"ONLINEAPI", "SELENIUM", "OFFLINEHTML", "FTP"}
SettingsValues ==
    [YMAPIKEY : ApiKeys, MAX_SKIP : MaxSkipValues,
     RESULTS_PER_PAGE : ResultsPerPageValues,
     MODE : {"ONLINEAPI"}, OFFLINE_ENRICH_MODE : {"NONE"},
     WEB_FORCE_OVERWRITE : OverwriteValues,
     WEB_MAX_ITEMS : {0},
     SELENIUM_KEEP_CHROME_OPEN : {TRUE},
     CLOSE_EXISTING_DEBUG_CHROME : {FALSE},
     SELENIUM_OPEN_URL_IN_NEW_TAB : NewTabValues,
     SELENIUM_RETURN_TO_ORIGINAL_TAB : ReturnTabValues]
    \cup
    [YMAPIKEY : {"KEY"}, MAX_SKIP : {2},
     RESULTS_PER_PAGE : {2},
     MODE : {"ONLINEAPI"}, OFFLINE_ENRICH_MODE : EnrichModes \ {"NONE"},
     WEB_FORCE_OVERWRITE : OverwriteValues,
     WEB_MAX_ITEMS : WebMaxItemsValues,
     SELENIUM_KEEP_CHROME_OPEN : {TRUE},
     CLOSE_EXISTING_DEBUG_CHROME : {FALSE},
     SELENIUM_OPEN_URL_IN_NEW_TAB : NewTabValues,
     SELENIUM_RETURN_TO_ORIGINAL_TAB : ReturnTabValues]
    \cup
    [YMAPIKEY : {"KEY"}, MAX_SKIP : {1},
     RESULTS_PER_PAGE : {2},
     MODE : {"ONLINEAPI"}, OFFLINE_ENRICH_MODE : EnrichModes \ {"NONE"},
     WEB_FORCE_OVERWRITE : OverwriteValues,
     WEB_MAX_ITEMS : {0},
     SELENIUM_KEEP_CHROME_OPEN : {TRUE},
     CLOSE_EXISTING_DEBUG_CHROME : CloseExistingValues \ {FALSE},
     SELENIUM_OPEN_URL_IN_NEW_TAB : NewTabValues,
     SELENIUM_RETURN_TO_ORIGINAL_TAB : ReturnTabValues]
    \cup
    [YMAPIKEY : {"KEY"}, MAX_SKIP : {0},
     RESULTS_PER_PAGE : {2},
     MODE : Modes \ {"ONLINEAPI"}, OFFLINE_ENRICH_MODE : EnrichModes,
     WEB_FORCE_OVERWRITE : OverwriteValues,
     WEB_MAX_ITEMS : {0},
     SELENIUM_KEEP_CHROME_OPEN : KeepOpenValues,
     CLOSE_EXISTING_DEBUG_CHROME : CloseExistingValues,
     SELENIUM_OPEN_URL_IN_NEW_TAB : NewTabValues,
     SELENIUM_RETURN_TO_ORIGINAL_TAB : ReturnTabValues]

\* the state of a run before its first step
ProgramStart ==
    /\ pc = "start"
    /\ out = <<>> /\ seen = {} /\ err = EmptyStr /\ meta = NoMeta
    /\ skip = 0 /\ cur_results = 0 /\ max_total = 0 /\ page_size = 0
    /\ params = NoParams
    /\ attempt = 0 /\ backoff = 0 /\ last_err = NoLastErr
    /\ gets = 0 /\ pages_ok = 0 /\ page_sleeps = 0 /\ backoff_sleeps = <<>>
    /\ short_page = FALSE /\ dup_dropped = FALSE /\ last_resp = NoResp
    /\ companies = <<>> /\ request_meta = NoRequestMeta /\ workbook = NoWorkbook
    /\ pool = NoPool /\ close_calls = 0
    /\ live_pool = NoPool /\ chrome = NoChrome /\ last_call = NoCall
    /\ last_close = NoClose
    /\ stats = NoStats /\ idx = 0 /\ done = 0
    /\ fetch_attempt = 0 /\ web_sleeps = <<>> /\ fetched = NoFetch /\ render_calls = 0 /\ parsed = NoDoc

Init ==
    /\ st \in SettingsValues
    /\ ProgramStart
    /\ fn = NoFn

\* pipeline.run up to the call of search_bbox, and search_bbox up to its loop
SearchStart ==
    /\ pc = "start"
    /\ st.MODE = "ONLINEAPI"
    /\ IF KeyMissing(st)
       THEN /\ err' = KeyEmptyErr
            /\ pc' = "searched"
            /\ UNCHANGED <<max_total, page_size, meta>>
       ELSE /\ max_total' = MaxTotal(st)
            /\ page_size' = PageSize(st)
            /\ meta' = [NoMeta EXCEPT !.page_size_effective = PageSize(st),
                                      !.max_total_effective =
                                          IF st.MAX_SKIP <= 0 THEN 0 ELSE MaxTotal(st)]
            /\ err' = EmptyStr
            /\ pc' = "loop"
    /\ out' = <<>> /\ seen' = {} /\ skip' = 0
    /\ UNCHANGED <<runVars, enrichVars, dup_dropped>>
    /\ UNCHANGED <<st, fn, cur_results, params, attempt, backoff, last_err, gets,
                   pages_ok, page_sleeps, backoff_sleeps, short_page, last_resp>>

\* line 382 and, when the loop goes on, lines 383-388 and the first lines of
\* _get_json_with_retries
LoopTest ==
    /\ pc = "loop"
    /\ IF LoopGuard(skip, Len(out), max_total)
       THEN /\ cur_results' = CurResults(page_size, max_total, Len(out))
            /\ params' = [results |-> CurResults(page_size, max_total, Len(out)),
                          skip |-> skip]
            /\ attempt' = 1 /\ backoff' = 1 /\ last_err' = NoLastErr
            /\ backoff_sleeps' = <<>> /\ gets' = 0
            /\ pc' = "get"
       ELSE /\ pc' = "after_loop"
            /\ UNCHANGED <<cur_results, params, attempt, backoff, last_err,
                           backoff_sleeps, gets>>
    /\ UNCHANGED <<runVars, enrichVars, dup_dropped>>
    /\ UNCHANGED <<st, fn, out, seen, err, meta, skip, max_total, page_size,
                   pages_ok, page_sleeps, short_page, last_resp>>

\* a backoff that stays as it is
NextBackoff_Constant(b) == b

\* _get_json_with_retries lines 77 and 88: backoff *= 2
NextBackoff(b) == b * 2

\* session.get answered by a retry status or failed by Timeout/ConnectionError
GetTransient ==
    /\ pc = "get"
    /\ \E r \in FailureResponses \cup ErrorResponses :
        /\ IsTransient(r)
        /\ r.body = NoJson
        /\ last_resp' = r
        /\ LET le == IF r.kind = "failure" THEN [status |-> 0, text |-> r.exc]
                     ELSE [status |-> r.status, text |-> Reason(r.status)]
           IN /\ last_err' = le
              /\ IF attempt < MaxAttempts
                 THEN /\ attempt' = attempt + 1
                      /\ pc' = "get"
                      /\ err' = err
                 ELSE /\ attempt' = attempt
                      /\ err' = RetryFailed(le)
                      /\ pc' = "after_loop"
    /\ backoff_sleeps' = Append(backoff_sleeps, backoff)
    /\ backoff' = NextBackoff(backoff)
    /\ gets' = gets + 1
    /\ UNCHANGED <<runVars, enrichVars, dup_dropped>>
    /\ UNCHANGED <<st, fn, out, seen, meta, skip, cur_results, max_total, page_size,
                   params, pages_ok, page_sleeps, short_page>>

\* session.get answered by a status >= 400 that is not a retry status
GetHttpError ==
    /\ pc = "get"
    /\ \E r \in ErrorResponses :
        /\ ~IsTransient(r)
        /\ r.status >= 400
        /\ last_resp' = r
        /\ err' = _raise_api_http_error(r)
    /\ pc' = "after_loop"
    /\ gets' = gets + 1
    /\ UNCHANGED <<runVars, enrichVars, dup_dropped>>
    /\ UNCHANGED <<st, fn, out, seen, meta, skip, cur_results, max_total, page_size,
                   params, attempt, backoff, last_err, pages_ok, page_sleeps,
                   backoff_sleeps, short_page>>

\* session.get answered 200 with a body r.json() fails on
GetBadJson ==
    /\ pc = "get"
    /\ last_resp' = OkResponse(FALSE)
    /\ err' = JsonDecodeErr
    /\ pc' = "after_loop"
    /\ gets' = gets + 1
    /\ UNCHANGED <<runVars, enrichVars, dup_dropped>>
    /\ UNCHANGED <<st, fn, out, seen, meta, skip, cur_results, max_total, page_size,
                   params, attempt, backoff, last_err, pages_ok, page_sleeps,
                   backoff_sleeps, short_page>>

\* an offset that stays where it is
NextSkip_Same(sk, n) == sk

\* search_bbox line 421: skip += cur_results
NextSkip(sk, n) == sk + n

\* session.get answered 200 with a page: lines 396-422
GetPage ==
    /\ pc = "get"
    /\ \E page \in Pages(cur_results, pages_ok < MaxPages) :
        LET n == PageLen(page)
            res == PageRows(page.feats, <<>>, seen, 0)
        IN /\ short_page' = (n < cur_results)
           /\ IF n = 0
              THEN /\ pc' = "after_loop"
                   /\ UNCHANGED <<out, seen, skip, page_sleeps, dup_dropped>>
              ELSE /\ out' = out \o res.rows
                   /\ seen' = res.seen
                   /\ dup_dropped' = (dup_dropped \/ res.dups > 0)
                   /\ IF IsLastPage(n, cur_results)
                      THEN /\ pc' = "after_loop"
                           /\ UNCHANGED <<skip, page_sleeps>>
                      ELSE /\ skip' = NextSkip(skip, cur_results)
                           /\ page_sleeps' = page_sleeps + 1
                           /\ pc' = "loop"
    /\ last_resp' = OkResponse(TRUE)
    /\ pages_ok' = pages_ok + 1
    /\ gets' = gets + 1
    /\ UNCHANGED <<runVars, enrichVars>>
    /\ UNCHANGED <<st, fn, err, meta, cur_results, max_total, page_size, params,
                   attempt, backoff, last_err, backoff_sleeps>>

\* lines 424-432: the end of search_bbox
AfterLoop ==
    /\ pc = "after_loop"
    /\ meta' = [meta EXCEPT !.stopped_by = StoppedBy(skip, Len(out), max_total, err),
                            !.total = Len(out),
                            !.unique = Cardinality(seen)]
    /\ pc' = "searched"
    /\ UNCHANGED <<runVars, enrichVars, dup_dropped>>
    /\ UNCHANGED <<st, fn, out, seen, err, skip, cur_results, max_total, page_size,
                   params, attempt, backoff, last_err, gets, pages_ok,
                   page_sleeps, backoff_sleeps, short_page, last_resp>>

\* a run that drops the companies of a search that returned an error
AfterSearchCompanies_Dropped(o, e) == IF e # EmptyStr THEN <<>> ELSE o

\* pipeline.run lines 132-138: the companies the run goes on with when the
\* search returned companies o and error e
AfterSearchCompanies(o, e) == o

\* a run that lets the keep-open setting rule in every mode
KeepPolicy_AnyMode(s) == s.SELENIUM_KEEP_CHROME_OPEN

\* pipeline.run lines 176 and 180: the keep-open policy is in force
KeepPolicy(s) == s.MODE = "SELENIUM" /\ s.SELENIUM_KEEP_CHROME_OPEN

\* the browser side when the run first needs a browser: a debug browser may
\* be running already
StartChromes == {NoChrome, [NoChrome EXCEPT !.running = {ExtChrome}]}

\* how many organization items the page of the live browser lists
LiveItemCounts == {0, 1, 2}

\* build_companies_from_offline_html: Company(...) at lines 144-164 is given
\* the keyword Kolichestvo_ocenok, which the dataclass does not have, so the
\* first item raises TypeError; without items the list is empty
build_companies_from_offline_html(items) ==
    [companies |-> <<>>, raised |-> IF items > 0 THEN "TypeError" ELSE ""]

\* what the try block of collect_companies_from_selenium_live_maps can catch
\* before the page is parsed
LiveFailures == {"challenge_still_present", "WebDriverException"}
SourceError(t) == [text |-> t, status |-> 0, error |-> "", message |-> "", hint |-> ""]

\* pipeline.run lines 151-160 with collect_companies_from_selenium_live_maps:
\* pool.ensure() at line 162 is outside the try, so what it raises leaves run
CollectLive ==
    /\ pc = "start"
    /\ st.MODE = "SELENIUM"
    /\ \E ch \in StartChromes, env \in RenderEnvs :
       \E probe \in Probes(ch) :
        LET p0 == [NoPool EXCEPT !.keep_chrome_open = st.SELENIUM_KEEP_CHROME_OPEN]
            e == Ensure(p0, ch, probe, env, "live", st.CLOSE_EXISTING_DEBUG_CHROME)
        IN /\ live_pool' = e.pool
           /\ chrome' = e.chrome
           /\ last_call' = e.call
           /\ IF e.call.raised # ""
              THEN /\ pc' = "crashed"
                   /\ UNCHANGED <<companies, request_meta, workbook>>
              ELSE \E t \in LiveFailures \cup {""}, items \in LiveItemCounts :
                    LET b == build_companies_from_offline_html(items)
                        e2 == IF t # "" THEN t ELSE b.raised
                    IN IF e2 = ""
                       THEN /\ companies' = b.companies
                            /\ pc' = "collected"
                            /\ UNCHANGED <<request_meta, workbook>>
                       ELSE /\ request_meta' = [request_meta EXCEPT !.error = SourceError(e2),
                                                                    !.saved = TRUE, !.rows = 0]
                            /\ workbook' = [saves |-> workbook.saves + 1, companies |-> <<>>,
                                            request_meta |-> request_meta']
                            /\ pc' = "done"
                            /\ UNCHANGED companies
    /\ UNCHANGED <<st, fn, searchVars, pool, close_calls, last_close, stats,
                   idx, done, fetch_attempt, web_sleeps, fetched, render_calls, parsed>>

\* how many *.html files OFFLINE_HTML_INPUT holds
OfflineFileCounts == {0, 1}

\* pipeline.run lines 140-149 with read_offline_input: without files the
\* error "offline_html_missing" is saved with an empty workbook; line 187 of
\* offline_html.py is not inside a try, so the TypeError of a file with items
\* leaves run
ReadOffline ==
    /\ pc = "start"
    /\ st.MODE = "OFFLINEHTML"
    /\ \E files \in OfflineFileCounts, items \in LiveItemCounts :
        LET b == build_companies_from_offline_html(items)
        IN IF files = 0
           THEN /\ request_meta' = [request_meta EXCEPT
                                       !.error = SourceError("offline_html_missing"),
                                       !.saved = TRUE, !.rows = 0]
                /\ workbook' = [saves |-> workbook.saves + 1, companies |-> <<>>,
                                request_meta |-> request_meta']
                /\ pc' = "done"
                /\ UNCHANGED companies
           ELSE IF b.raised # ""
           THEN /\ pc' = "crashed"
                /\ UNCHANGED <<companies, request_meta, workbook>>
           ELSE /\ companies' = b.companies
                /\ pc' = "collected"
                /\ UNCHANGED <<request_meta, workbook>>
    /\ UNCHANGED <<st, fn, searchVars, enrichVars>>

\* pipeline.run lines 162-167: a MODE that is none of the three
UnsupportedMode ==
    /\ pc = "start"
    /\ st.MODE \notin {"ONLINEAPI", "OFFLINEHTML", "SELENIUM"}
    /\ request_meta' = [request_meta EXCEPT !.error = SourceError("Unsupported MODE"),
                                            !.saved = TRUE, !.rows = 0]
    /\ workbook' = [saves |-> workbook.saves + 1, companies |-> <<>>,
                    request_meta |-> request_meta']
    /\ pc' = "done"
    /\ UNCHANGED <<st, fn, searchVars, companies, enrichVars>>

\* pipeline.run lines 169-176 after read_offline_input or
\* collect_companies_from_selenium_live_maps returned without an error
RunAfterCollect ==
    /\ pc = "collected"
    /\ IF st.OFFLINE_ENRICH_MODE \in {"WEB", "APIWEB"}
       THEN /\ pool' = [NoPool EXCEPT !.keep_chrome_open = KeepPolicy(st)]
            /\ stats' = NoStats /\ idx' = 1 /\ done' = 0
            /\ pc' = "enrich_loop"
       ELSE /\ pc' = "save"
            /\ UNCHANGED <<pool, stats, idx, done>>
    /\ last_call' = NoCall
    /\ UNCHANGED <<st, fn, searchVars, runVars, close_calls, live_pool, chrome, last_close,
                   fetch_attempt, web_sleeps, fetched, render_calls, parsed>>

\* pipeline.run lines 132-138 and 169-176: the search has returned
RunAfterSearch ==
    /\ pc = "searched"
    /\ companies' = AfterSearchCompanies(out, err)
    /\ request_meta' = [request_meta EXCEPT !.api_meta = meta,
                                            !.error = err,
                                            !.partial = (err # EmptyStr)]
    /\ IF st.OFFLINE_ENRICH_MODE \in {"WEB", "APIWEB"}
       THEN /\ pool' = [NoPool EXCEPT !.keep_chrome_open = KeepPolicy(st)]
            /\ chrome' \in StartChromes
            /\ stats' = NoStats /\ idx' = 1 /\ done' = 0
            /\ pc' = "enrich_loop"
       ELSE /\ pc' = "save"
            /\ UNCHANGED <<pool, chrome, stats, idx, done>>
    \* the locals of search_bbox are gone with its return
    /\ seen' = {} /\ skip' = 0 /\ cur_results' = 0 /\ max_total' = 0 /\ page_size' = 0
    /\ params' = NoParams /\ attempt' = 0 /\ backoff' = 0 /\ last_err' = NoLastErr
    /\ gets' = 0 /\ pages_ok' = 0 /\ page_sleeps' = 0 /\ backoff_sleeps' = <<>>
    /\ short_page' = FALSE /\ dup_dropped' = FALSE /\ last_resp' = NoResp
    /\ UNCHANGED <<st, fn, out, err, meta, workbook, close_calls, fetch_attempt, web_sleeps,
                   fetched, render_calls, parsed, live_pool, last_call, last_close>>

\* a cap that lets one organization more through
CapReached_OneMore(max_items, n) == max_items > 0 /\ n > max_items

\* enrich_companies_web line 493: the cap of WEB_MAX_ITEMS on the organizations
\* already attempted
CapReached(max_items, n) == max_items > 0 /\ n >= max_items

\* enrich_companies_web lines 492-506, and enrich_company_from_web up to its
\* call of http_get_org_page
EnrichNext ==
    /\ pc = "enrich_loop"
    /\ IF idx > Len(companies)
       THEN /\ pc' = "enrich_end"
            /\ UNCHANGED <<stats, idx, done, fetch_attempt, web_sleeps>>
       ELSE LET oid == companies[idx].ID
            IN IF CapReached(st.WEB_MAX_ITEMS, done)
               THEN /\ stats' = [stats EXCEPT !.skipped = @ + 1]
                    /\ idx' = idx + 1 /\ pc' = "enrich_loop"
                    /\ UNCHANGED <<done, fetch_attempt, web_sleeps>>
               ELSE IF oid = <<>>
               THEN /\ stats' = [stats EXCEPT !.skipped = @ + 1]
                    /\ idx' = idx + 1 /\ pc' = "enrich_loop"
                    /\ UNCHANGED <<done, fetch_attempt, web_sleeps>>
               ELSE IF ~IsDigit(oid)
               THEN \* enrich_company_from_web returns (c, {"skipped": ...})
                    /\ done' = done + 1
                    /\ stats' = Succeeded([stats EXCEPT !.attempted = @ + 1])
                    /\ idx' = idx + 1 /\ pc' = "enrich_loop"
                    /\ UNCHANGED <<fetch_attempt, web_sleeps>>
               ELSE /\ done' = done + 1
                    /\ stats' = [stats EXCEPT !.attempted = @ + 1]
                    /\ fetch_attempt' = 1 /\ web_sleeps' = <<>>
                    /\ pc' = "web_get"
                    /\ UNCHANGED idx
    /\ fetched' = NoFetch /\ render_calls' = 0 /\ parsed' = NoDoc
    /\ last_call' = NoCall
    /\ UNCHANGED <<st, fn, searchVars, runVars, pool, close_calls, live_pool, chrome, last_close>>

\* a delay that does not grow
WebBackoff_Constant(n) == 6

\* http_get_org_page lines 375 and 385: time.sleep(0.6 * attempt), in tenths
\* of a second
WebBackoff(n) == 6 * n

\* http_get_org_page: a retry status, a Timeout or a ConnectionError
WebGetTransient ==
    /\ pc = "web_get"
    /\ web_sleeps' = Append(web_sleeps, WebBackoff(fetch_attempt))
    /\ \E r \in {[exc |-> e, status |-> 0] : e \in Failures}
               \cup {[exc |-> "", status |-> x] : x \in WebStatuses \cap WEB_RETRY_STATUSES} :
        IF fetch_attempt < WebMaxAttempts
        THEN /\ fetch_attempt' = fetch_attempt + 1
             /\ pc' = "web_get"
             /\ UNCHANGED <<stats, idx>>
        ELSE /\ fetch_attempt' = fetch_attempt
             /\ stats' = Failed(stats, companies[idx].ID, "requests failed")
             /\ idx' = idx + 1
             /\ pc' = "enrich_loop"
    /\ UNCHANGED <<st, fn, searchVars, runVars, pool, close_calls, browserVars, done, fetched,
                   render_calls, parsed>>

\* http_get_org_page: a status >= 400 that is not a retry status
WebGetHttpError ==
    /\ pc = "web_get"
    /\ \E status \in WebStatuses \ WEB_RETRY_STATUSES :
        /\ status >= 400
        /\ stats' = Failed(stats, companies[idx].ID, "WEB HTTP")
    /\ idx' = idx + 1
    /\ pc' = "enrich_loop"
    /\ UNCHANGED <<st, fn, searchVars, runVars, pool, close_calls, browserVars, done, fetch_attempt, web_sleeps,
                   fetched, render_calls, parsed>>

\* a policy that overwrites whatever the settings say
OverwritePolicy_Always(s) == TRUE

\* enrich_company_from_web line 436: overwrite = bool(st.WEB_FORCE_OVERWRITE)
OverwritePolicy(s) == s.WEB_FORCE_OVERWRITE

\* an update that appends the enriched record to the list
ReplaceAt_Appended(cs, i, newc) == Append(cs, newc)

\* enrich_companies_web line 510: companies[i - 1] = newc; the record was
\* changed in place, so the list holds it also when the call raised
ReplaceAt(cs, i, newc) == [cs EXCEPT ![i] = newc]

\* the rest of enrich_company_from_web on html, and lines 510-514 of
\* enrich_companies_web
ExtractAndCount(html, used_selenium) ==
    LET e == Extract(companies[idx], html, used_selenium, OverwritePolicy(st))
    IN /\ parsed' = html
       /\ companies' = ReplaceAt(companies, idx, e.c)
       /\ stats' = IF e.raised
                   THEN Failed(stats, companies[idx].ID, "AttributeError")
                   ELSE Succeeded(stats)
       /\ idx' = idx + 1
       /\ pc' = "enrich_loop"

\* http_get_org_page returned a page: lines 411-412 and, when the page is not
\* blocked, the rest of enrich_company_from_web
WebGetPage ==
    /\ pc = "web_get"
    /\ \E f \in FetchResults :
        /\ fetched' = f
        /\ IF requests_is_blocked(f.showcaptcha, f.html)
           THEN /\ pc' = "render"
                /\ UNCHANGED <<companies, stats, idx, parsed>>
           ELSE ExtractAndCount(f.html, FALSE)
    /\ UNCHANGED <<st, fn, searchVars, request_meta, workbook, pool, close_calls, browserVars, done,
                   fetch_attempt, web_sleeps, render_calls>>

\* an escalation that keeps the html of the fast fetch
HtmlAfterRender_Kept(fast_html, rendered) == fast_html

\* line 413: html after "html = pool.get_page_html(...)"
HtmlAfterRender(fast_html, rendered) == rendered

\* line 413: pool.get_page_html, then the rest of enrich_company_from_web;
\* what get_page_html raises is caught at line 512 of enrich_companies_web
Render ==
    /\ pc = "render"
    /\ render_calls' = render_calls + 1
    /\ \E env \in RenderEnvs, probe \in Probes(chrome), doc \in RenderedDocs :
        LET e == Ensure(pool, chrome, probe, env, "web", st.CLOSE_EXISTING_DEBUG_CHROME)
            v == Visit(e.chrome, env, e.call, st.SELENIUM_OPEN_URL_IN_NEW_TAB,
                       st.SELENIUM_RETURN_TO_ORIGINAL_TAB)
            r == IF e.call.raised # "" THEN e ELSE v
        IN /\ pool' = e.pool
           /\ close_calls' = close_calls + e.call.closes
           /\ chrome' = r.chrome
           /\ last_call' = r.call
           /\ IF r.call.raised # ""
              THEN /\ stats' = Failed(stats, companies[idx].ID, r.call.raised)
                   /\ idx' = idx + 1 /\ pc' = "enrich_loop"
                   /\ UNCHANGED <<companies, parsed>>
              ELSE ExtractAndCount(HtmlAfterRender(fetched.html, doc), TRUE)
    /\ UNCHANGED <<st, fn, searchVars, request_meta, workbook, done, fetch_attempt, web_sleeps, fetched,
                   live_pool, last_close>>

\* pipeline.run lines 179-181: the finally clause
RunFinally ==
    IF ~KeepPolicy(st)
    THEN /\ pool' = Close(pool)
         /\ close_calls' = close_calls + 1
         /\ chrome' = [chrome EXCEPT !.running =
                           @ \ CloseTerminates(pool, st.CLOSE_EXISTING_DEBUG_CHROME)]
         /\ last_close' =
                [called |-> TRUE, pool |-> pool,
                 terminated |-> CloseTerminates(pool, st.CLOSE_EXISTING_DEBUG_CHROME),
                 warned |-> CloseWarns(pool, st.CLOSE_EXISTING_DEBUG_CHROME)]
    ELSE UNCHANGED <<pool, close_calls, chrome, last_close>>

\* enrich_companies_web returns; pipeline.run lines 179-183
EnrichEnd ==
    /\ pc = "enrich_end"
    /\ RunFinally
    /\ request_meta' = [request_meta EXCEPT !.enrich_stats = "web"]
    /\ pc' = "save"
    /\ UNCHANGED <<st, fn, searchVars, companies, workbook, stats, idx, done,
                   fetch_attempt, web_sleeps, fetched, render_calls, parsed, live_pool, last_call>>

\* a KeyboardInterrupt while an organization is fetched or rendered is not an
\* Exception: it passes line 512, runs the finally clause and leaves run
Interrupt ==
    /\ pc \in {"web_get", "render"}
    /\ RunFinally
    /\ pc' = "interrupted"
    \* the locals of enrich_company_from_web are gone with its frame
    /\ fetched' = NoFetch /\ render_calls' = 0 /\ parsed' = NoDoc
    /\ UNCHANGED <<st, fn, searchVars, runVars, stats, idx, done,
                   fetch_attempt, web_sleeps, live_pool, last_call>>

\* pipeline.run lines 186-190: save_to_excel and the RunResult
Save ==
    /\ pc = "save"
    /\ workbook' = [saves |-> workbook.saves + 1, companies |-> companies,
                    request_meta |-> request_meta]
    /\ request_meta' = [request_meta EXCEPT !.saved = TRUE, !.rows = Len(companies)]
    /\ pc' = "done"
    /\ UNCHANGED <<st, fn, searchVars, companies, enrichVars>>

Next ==
    \/ SearchStart
    \/ LoopTest
    \/ GetTransient
    \/ GetHttpError
    \/ GetBadJson
    \/ GetPage
    \/ AfterLoop
    \/ RunAfterSearch
    \/ CollectLive
    \/ ReadOffline
    \/ UnsupportedMode
    \/ RunAfterCollect
    \/ EnrichNext
    \/ WebGetTransient
    \/ WebGetHttpError
    \/ WebGetPage
    \/ Render
    \/ EnrichEnd
    \/ Interrupt
    \/ Save

Spec == Init /\ [][Next]_vars

\* the run with its steps taken: the interpreter goes on while the program can,
\* and every request ends with an answer or, after WEB_TIMEOUT_SEC, a Timeout
FairSpec == Spec /\ WF_vars(Next)

\* ------------------- the merge of web_enrich and pipeline on one record
\* a record as company_from_feature makes it
NewCompany == company_from_feature([kind |-> "ok", id |-> <<"1">>])

\* the fields set_if_needed is applied to, the values they hold and the
\* values offered; "Kolichestvo_ocenok" is a field Company does not have
SetAttrs == {"Site", "Rezhim_raboty"}
CurrentValues == {"", "old"}
OfferedValues == {"", " ", "new", " new ", "old"}
NoSetResult == [c |-> NewCompany, changed |-> 0, raised |-> FALSE]
SetInputs ==
    {[op |-> "set_if_needed", stage |-> "", c |-> [NewCompany EXCEPT ![a] = cur],
      attr |-> a, value |-> v, overwrite |-> o, res |-> NoSetResult] :
        a \in SetAttrs, cur \in CurrentValues, v \in OfferedValues, o \in BOOLEAN}
    \cup
    {[op |-> "set_if_needed", stage |-> "", c |-> NewCompany,
      attr |-> "Kolichestvo_ocenok", value |-> v, overwrite |-> o, res |-> NoSetResult] :
        v \in OfferedValues, o \in BOOLEAN}

\* the pages the three extraction steps are applied to: one field at a time,
\* with each source empty or holding one of two values. The DOM step has no
\* rating, and the regular expressions read the same markup the JSON-LD and
\* the embedded JSON are in, so they find a value whenever those hold one
TierValues == {"", "5", "7"}
TierPages ==
    {[NoDoc EXCEPT !.origin = "requests", !.ld = Only(q[1], q[2]), !.emb = Only(q[1], q[3]),
                   !.dom = Only(q[1], q[4]), !.rx = Only(q[1], q[5])] :
        q \in {x \in RatingFields \X TierValues \X TierValues \X TierValues \X TierValues :
                 /\ (x[1] = "rating" => x[4] = "")
                 /\ (x[2] # "" \/ x[3] # "" => x[5] # "")}}
TierInputs ==
    {[op |-> "rating_counts", stage |-> "", html |-> p, res |-> NoCounts] : p \in TierPages}

\* the records, the answers of fetch_by_uri and the pages the enrichment
\* chain of pipeline.run (lines 169-183) is applied to
MergeJsons ==
    {EmptyJson, [form |-> "malformed", keys |-> {}], [form |-> "not_dict", keys |-> {}],
     FeatureJson, ObjectJson({"properties", "web_enrich"})}
MergeCompanies ==
    {[NewCompany EXCEPT !.Site = s, !.Rezhim_raboty = h, !.raw_json = j] :
        s \in {"", "https://search.example"}, h \in {"", "search hours"}, j \in MergeJsons}
NoAnswer == [kind |-> "none", c2 |-> NewCompany]
ApiAnswers ==
    {NoAnswer, [kind |-> "raised", c2 |-> NewCompany],
     [kind |-> "feature",
      c2 |-> [NewCompany EXCEPT !.Site = "https://api.example", !.Rezhim_raboty = "api hours",
                                !.Kolichestvo_otzyvov = "3"]]}
MergeDocs ==
    {[NoDoc EXCEPT !.origin = "requests", !.site = s, !.worktime = h,
                   !.ld = Only("rating_count", n), !.rx = Only("rating_count", n)] :
        s \in {"", "https://web.example"}, h \in {"", "web hours"}, n \in {"", "15"}}
NoApi == [enabled |-> FALSE, attempted |-> 0, changed_fields |-> 0, errors |-> 0]
ChainInputs ==
    {[op |-> "enrich", stage |-> "", c0 |-> c, answer |-> a, html |-> h,
      c |-> c, before_web |-> c, api |-> NoApi, web_raised |-> FALSE, stats |-> NoStats] :
        c \in MergeCompanies, a \in ApiAnswers, h \in MergeDocs}

\* the Settings of an enrichment chain
MergeSettings ==
    [YMAPIKEY : ApiKeys, ENABLE_URI_REQUERY : BOOLEAN, MAX_SKIP : {0},
     RESULTS_PER_PAGE : {2},
     MODE : {"ONLINEAPI"}, OFFLINE_ENRICH_MODE : {"API", "WEB", "APIWEB"},
     WEB_FORCE_OVERWRITE : BOOLEAN,
     WEB_MAX_ITEMS : {0},
     SELENIUM_KEEP_CHROME_OPEN : {TRUE},
     CLOSE_EXISTING_DEBUG_CHROME : {FALSE},
     SELENIUM_OPEN_URL_IN_NEW_TAB : NewTabValues,
     SELENIUM_RETURN_TO_ORIGINAL_TAB : ReturnTabValues]
DefaultSettings ==
    CHOOSE s \in MergeSettings :
        /\ s.YMAPIKEY = "KEY" /\ s.ENABLE_URI_REQUERY
        /\ s.OFFLINE_ENRICH_MODE = "WEB" /\ s.WEB_FORCE_OVERWRITE

MergeInit ==
    /\ ProgramStart
    /\ \/ fn \in SetInputs \cup TierInputs /\ st = DefaultSettings
       \/ fn \in ChainInputs /\ st \in MergeSettings

\* set_if_needed on one field of one record
ApplySetIfNeeded ==
    /\ fn.op = "set_if_needed" /\ fn.stage = ""
    /\ fn' = [fn EXCEPT !.stage = "done",
                        !.res = set_if_needed(fn.c, fn.attr, fn.value, fn.overwrite)]
    /\ UNCHANGED programVars

\* lines 418-431 of enrich_company_from_web on one page
ApplyRatingCounts ==
    /\ fn.op = "rating_counts" /\ fn.stage = ""
    /\ fn' = [fn EXCEPT !.stage = "done", !.res = RatingCounts(fn.html)]
    /\ UNCHANGED programVars

\* _apply_uri_requery_if_needed on a list of one record: the early returns of
\* lines 50-54, then fetch_by_uri and fill_if_empty inside the try of line 69
UriRequery(s, c, answer) ==
    IF ~s.ENABLE_URI_REQUERY THEN [c |-> c, api |-> NoApi]
    ELSE IF s.YMAPIKEY = "" THEN [c |-> c, api |-> [NoApi EXCEPT !.enabled = TRUE]]
    ELSE IF answer.kind = "none"
    THEN [c |-> c, api |-> [NoApi EXCEPT !.enabled = TRUE, !.attempted = 1]]
    ELSE IF answer.kind = "raised"
    THEN [c |-> c, api |-> [NoApi EXCEPT !.enabled = TRUE, !.attempted = 1, !.errors = 1]]
    ELSE LET r == FillAll(c, answer.c2, ApiAttrs, 0)
         IN [c |-> r.c,
             api |-> [enabled |-> TRUE, attempted |-> 1, changed_fields |-> r.changed,
                      errors |-> IF r.raised THEN 1 ELSE 0]]

\* pipeline.run lines 172-173
ApplyUriRequery ==
    /\ fn.op = "enrich" /\ fn.stage = ""
    /\ st.OFFLINE_ENRICH_MODE \in {"API", "APIWEB"}
    /\ LET r == UriRequery(st, fn.c, fn.answer)
       IN fn' = [fn EXCEPT !.stage = "api", !.c = r.c, !.before_web = r.c, !.api = r.api]
    /\ UNCHANGED programVars

\* the stage the web enrichment of pipeline.run starts from: line 175 comes
\* after lines 172-173
WebStartsAfter(s) == IF s.OFFLINE_ENRICH_MODE = "APIWEB" THEN "api" ELSE ""

\* pipeline.run lines 175-181 on a list of one record whose page is fetched
\* without a challenge: enrich_companies_web lines 502-514
ApplyWebEnrich ==
    /\ fn.op = "enrich" /\ fn.stage = WebStartsAfter(st)
    /\ st.OFFLINE_ENRICH_MODE \in {"WEB", "APIWEB"}
    /\ LET e == Extract(fn.c, fn.html, FALSE, OverwritePolicy(st))
           s1 == [NoStats EXCEPT !.attempted = 1]
       IN fn' = [fn EXCEPT !.stage = "web", !.c = e.c, !.web_raised = e.raised,
                           !.stats = IF e.raised THEN Failed(s1, fn.c.ID, "AttributeError")
                                     ELSE Succeeded(s1)]
    /\ UNCHANGED programVars

MergeNext ==
    \/ ApplySetIfNeeded
    \/ ApplyRatingCounts
    \/ ApplyUriRequery
    \/ ApplyWebEnrich

MergeSpec == MergeInit /\ [][MergeNext]_vars

\* ------------------------------------------ the parsers applied on their own
\* a text these functions read character by character is a sequence of
\* one-character strings
Blank == " "
\* str.strip(): the blanks on both sides go
RECURSIVE LStrip(_)
LStrip(s) == IF s # <<>> /\ Head(s) = Blank THEN LStrip(Tail(s)) ELSE s
RECURSIVE RStrip(_)
RStrip(s) ==
    IF s # <<>> /\ s[Len(s)] = Blank THEN RStrip(SubSeq(s, 1, Len(s) - 1)) ELSE s
Strip(s) == LStrip(RStrip(s))

\* str.replace(a, b) for one-character a and b
Replace(s, a, b) == [k \in 1..Len(s) |-> IF s[k] = a THEN b ELSE s[k]]

\* the characters of s that are digits, in order: re.sub(r"\D+", "", s)
RECURSIVE DigitsOf(_)
DigitsOf(s) ==
    IF s = <<>> THEN <<>>
    ELSE IF Head(s) \in Digits THEN <<Head(s)>> \o DigitsOf(Tail(s))
    ELSE DigitsOf(Tail(s))

DigitChars == <<"0", "1", "2", "3", "4", "5", "6", "7", "8", "9">>
DigitVal(ch) == (CHOOSE k \in 1..10 : DigitChars[k] = ch) - 1
\* int(s) for a sequence of digits, and str(n) for a natural number
RECURSIVE IntOf(_)
IntOf(s) == IF s = <<>> THEN 0 ELSE IntOf(SubSeq(s, 1, Len(s) - 1)) * 10 + DigitVal(s[Len(s)])
RECURSIVE StrOf(_)
StrOf(n) == IF n < 10 THEN <<DigitChars[n + 1]>> ELSE StrOf(n \div 10) \o <<DigitChars[(n % 10) + 1]>>

\* float(s) for the texts of the model: an optional sign, then digits with at
\* most one "." among them (at least one digit), or one of the words float()
\* accepts for the values that are not finite; anything else raises ValueError
AllDigits(s) == \A k \in 1..Len(s) : s[k] \in Digits
Lower(ch) ==
    CASE ch = "N" -> "n" [] ch = "A" -> "a" [] ch = "I" -> "i" [] ch = "F" -> "f"
      [] OTHER -> ch
NanWords == {<<"n", "a", "n">>}
InfWords == {<<"i", "n", "f">>}
NoFloat == [ok |-> FALSE, kind |-> "", neg |-> FALSE, int |-> <<>>, frac |-> <<>>]
float(s) ==
    LET signed == s # <<>> /\ Head(s) \in {"+", "-"}
        neg == s # <<>> /\ Head(s) = "-"
        body == IF signed THEN Tail(s) ELSE s
        word == [k \in 1..Len(body) |-> Lower(body[k])]
        dots == {k \in 1..Len(body) : body[k] = "."}
    IN IF word \in NanWords THEN [NoFloat EXCEPT !.ok = TRUE, !.kind = "nan"]
       ELSE IF word \in InfWords THEN [NoFloat EXCEPT !.ok = TRUE, !.kind = "inf", !.neg = neg]
       ELSE IF dots = {}
       THEN IF body # <<>> /\ AllDigits(body)
            THEN [ok |-> TRUE, kind |-> "finite", neg |-> neg, int |-> body, frac |-> <<>>]
            ELSE NoFloat
       ELSE IF Cardinality(dots) > 1 THEN NoFloat
       ELSE LET d == CHOOSE k \in dots : TRUE
                ip == SubSeq(body, 1, d - 1)
                fp == SubSeq(body, d + 1, Len(body))
            IN IF AllDigits(ip) /\ AllDigits(fp) /\ Len(ip) + Len(fp) > 0
               THEN [ok |-> TRUE, kind |-> "finite", neg |-> neg, int |-> ip, frac |-> fp]
               ELSE NoFloat

\* f"{v:.1f}": the value rounded to one decimal. A value halfway between two
\* decimals is rounded by its binary expansion; for the halves that a double
\* holds exactly (x.25, x.75) that is the even neighbour
IsZeros(s) == \A k \in 1..Len(s) : s[k] = "0"
RoundsUp(tenths, rest) ==
    /\ rest # <<>>
    /\ \/ DigitVal(Head(rest)) > 5
       \/ DigitVal(Head(rest)) = 5 /\ ~IsZeros(Tail(rest))
       \/ DigitVal(Head(rest)) = 5 /\ IsZeros(Tail(rest)) /\ tenths % 2 = 1
Format1f(v) ==
    IF v.kind = "nan" THEN <<"n", "a", "n">>
    ELSE IF v.kind = "inf"
    THEN (IF v.neg THEN <<"-">> ELSE <<>>) \o <<"i", "n", "f">>
    ELSE LET d1 == IF v.frac = <<>> THEN 0 ELSE DigitVal(Head(v.frac))
             rest == IF v.frac = <<>> THEN <<>> ELSE Tail(v.frac)
             t0 == IntOf(v.int) * 10 + d1
             t == IF RoundsUp(t0, rest) THEN t0 + 1 ELSE t0
         IN (IF v.neg THEN <<"-">> ELSE <<>>)
            \o StrOf(t \div 10) \o <<".">> \o StrOf(t % 10)

\* _format_rating_1 of yandex_api and of web_enrich (the same text): x is
\* str(x) of the value, <<>> for None
_format_rating_1(x) ==
    LET s == Replace(Strip(x), ",", ".")
    IN IF s = <<>> THEN <<>>
       ELSE IF ~float(s).ok THEN <<>>
       ELSE Replace(Format1f(float(s)), ".", ",")

\* a JSON value by its Python type: "absent" is a missing key and every
\* falsy value (None, 0, "", [], {}), "number" a number other than 0 or the
\* value true; a string and a dict are not empty
JTypes == {"absent", "number", "string", "list", "dict"}

\* the elements a loop over a JSON value meets: dicts with the keys the
\* parsers read, and elements that are not dicts (the characters of a string,
\* the keys of a dict, the scalars of a list)
NotDictItem == [dict |-> FALSE, formatted |-> "", type |-> "", name |-> ""]
Contact(f, t) == [dict |-> TRUE, formatted |-> f, type |-> t, name |-> ""]
Category(n) == [dict |-> TRUE, formatted |-> "", type |-> "", name |-> n]
Absent == [type |-> "absent", items |-> <<>>]
ListOf(items) == IF items = <<>> THEN Absent ELSE [type |-> "list", items |-> items]
\* a value of the type t where a list is expected
WrongList(t) ==
    [type |-> t, items |-> IF t \in {"string", "dict"} THEN <<NotDictItem, NotDictItem>> ELSE <<>>]

\* "for c in v or []": a number raises TypeError
Iterate(v) ==
    [raised |-> v.type = "number", items |-> IF v.type = "absent" THEN <<>> ELSE v.items]

\* dedup_keep_order
RECURSIVE DedupFrom(_, _)
DedupFrom(items, acc) ==
    IF items = <<>> THEN acc
    ELSE LET x == safe_str(Head(items))
         IN IF x = "" \/ \E k \in 1..Len(acc) : acc[k] = x
            THEN DedupFrom(Tail(items), acc)
            ELSE DedupFrom(Tail(items), Append(acc, x))
dedup_keep_order(items) == DedupFrom(items, <<>>)

\* pick_n: the first n items, padded with "" to n
pick_n(items, n) == [k \in 1..n |-> IF k <= Len(items) THEN items[k] ELSE ""]

\* items[n:]
DropFirst(items, n) == IF n >= Len(items) THEN <<>> ELSE SubSeq(items, n + 1, Len(items))

\* sep.join(items): the text as the sequence of its parts
Separator == ", "
RECURSIVE Join(_)
Join(items) ==
    IF items = <<>> THEN <<>>
    ELSE IF Len(items) = 1 THEN items
    ELSE <<Head(items), Separator>> \o Join(Tail(items))
safe_join(items) == Join(dedup_keep_order(items))

\* safe_str(c.get("type")).lower()
LowerType(t) ==
    CASE t = "Email" -> "email" [] t = "FAX" -> "fax" [] OTHER -> t

\* the list a contact of type ctype goes to: lines 132-137
ContactList(ctype) ==
    IF ctype = "email" THEN "emails" ELSE IF ctype = "fax" THEN "faxes" ELSE "phones"

\* parse_contacts_meta lines 125-137 for one of the three lists
RECURSIVE ContactsOf(_, _)
ContactsOf(items, list) ==
    IF items = <<>> THEN <<>>
    ELSE LET c == Head(items)
             formatted == safe_str(c.formatted)
         IN IF ~c.dict \/ formatted = "" \/ ContactList(LowerType(safe_str(c.type))) # list
            THEN ContactsOf(Tail(items), list)
            ELSE <<formatted>> \o ContactsOf(Tail(items), list)

parse_contacts_meta(md) ==
    LET it == Iterate(md.Phones)
    IN [raised |-> it.raised,
        phones |-> dedup_keep_order(ContactsOf(it.items, "phones")),
        emails |-> dedup_keep_order(ContactsOf(it.items, "emails")),
        faxes |-> dedup_keep_order(ContactsOf(it.items, "faxes"))]

RECURSIVE NamesOf(_)
NamesOf(items) ==
    IF items = <<>> THEN <<>>
    ELSE LET c == Head(items)
         IN IF ~c.dict \/ safe_str(c.name) = "" THEN NamesOf(Tail(items))
            ELSE <<safe_str(c.name)>> \o NamesOf(Tail(items))

parse_categories_meta(md) ==
    LET it == Iterate(md.Categories)
    IN [raised |-> it.raised, names |-> dedup_keep_order(NamesOf(it.items))]

\* parse_hours_meta: Hours.text, or what lines 193-232 make of the
\* Availabilities (av) when they are a list that is not empty
parse_hours_meta(md) ==
    IF md.Hours.type # "dict" THEN ""
    ELSE IF safe_str(md.Hours.text) # "" THEN safe_str(md.Hours.text)
    ELSE IF md.Hours.av.type # "list" THEN ""
    ELSE md.Hours.av.text

\* parse_features_meta: what lines 240-272 make of a list that is not empty
parse_features_meta(md) ==
    IF md.Features.type # "list" THEN "" ELSE md.Features.text

\* parse_address_meta
parse_address_meta(md, props) ==
    LET a0 == safe_str(md.address)
        obj == md.Address
        a1 == IF obj.type = "dict" /\ a0 = "" /\ safe_str(obj.formatted) # ""
              THEN safe_str(obj.formatted) ELSE a0
    IN [address |-> IF a1 = "" THEN safe_str(props.description) ELSE a1,
        postal |-> IF obj.type = "dict" THEN safe_str(obj.postalCode) ELSE ""]

\* company_from_feature lines 280-283: len(coords) raises TypeError for a
\* number, coords[0] raises KeyError for a dict (its keys are strings)
Coordinates(feature) ==
    LET geom == feature.geometry
        coords == IF geom.type = "dict" THEN geom.coordinates ELSE Absent
        items == IF coords.type = "absent" THEN <<>> ELSE coords.items
    IN [raised |-> coords.type \in {"number", "dict"},
        lon |-> IF Len(items) >= 1 THEN safe_str(items[1]) ELSE "",
        lat |-> IF Len(items) >= 2 THEN safe_str(items[2]) ELSE ""]

\* the values of an object that is missing
NoHours == [type |-> "absent", text |-> "", av |-> [type |-> "absent", text |-> ""]]
NoFeatures == [type |-> "absent", text |-> ""]
NoAddress == [type |-> "absent", formatted |-> "", postalCode |-> ""]
NoGeometry == [type |-> "absent", coordinates |-> Absent]
NoCompanyMetaData ==
    [type |-> "absent", id |-> <<>>, name |-> "", address |-> "", Address |-> NoAddress,
     Phones |-> Absent, Categories |-> Absent, Hours |-> NoHours, Features |-> NoFeatures,
     rating |-> <<>>, reviewCount |-> "", url |-> ""]
NoProperties ==
    [type |-> "absent", name |-> "", description |-> "", uri |-> "",
     CompanyMetaData |-> NoCompanyMetaData]

\* the Telefon_1..3, Email_1..3, Faks_1..3 and Kategoriya_1..3 fields of
\* Company, which lines 317-333 fill from the indexes 0, 1 and 2
CompanySlots == 3

\* a record without its slots filled
NoSlots == [k \in 1..CompanySlots |-> ""]
NoRecord ==
    [ID |-> <<>>, Nazvanie |-> "", Adres |-> "", Indeks |-> "", Dolgota |-> "", Shirota |-> "",
     Site |-> "", Telefon |-> NoSlots, Email |-> NoSlots, Rezhim_raboty |-> "",
     Rejting |-> <<>>, Kolichestvo_otzyvov |-> "", Kategoriya |-> NoSlots,
     Osobennosti |-> "", uri |-> "", Faks |-> NoSlots, Kategorii_prochie |-> <<>>,
     raw_json |-> EmptyJson]

\* cols[0], cols[1], cols[2] of lines 317-333: IndexError for a list of fewer
\* than three columns
SlotsRaise(n) == n < CompanySlots
SlotsOf(cols) == [k \in 1..CompanySlots |-> cols[k]]

\* company_from_feature on a feature given with its substructures: the record,
\* or raised for the exception line 337 turns into None. The slots of the
\* record are kept as the sequences Telefon, Email, Faks and Kategoriya
CompanyOf(feature, s) ==
    LET p0 == feature.properties
        props == IF p0.type = "dict" THEN p0 ELSE NoProperties
        m0 == props.CompanyMetaData
        md == IF m0.type = "dict" THEN m0 ELSE NoCompanyMetaData
        xy == Coordinates(feature)
        adr == parse_address_meta(md, props)
        con == parse_contacts_meta(md)
        cat == parse_categories_meta(md)
        raised ==
            \/ xy.raised
            \/ m0.type \notin {"dict", "absent"}
            \/ p0.type \notin {"dict", "absent"}
            \/ con.raised
            \/ cat.raised
            \/ SlotsRaise(s.MAX_PHONES) \/ SlotsRaise(s.MAX_EMAILS)
            \/ SlotsRaise(s.MAX_CATEGORIES_MAIN) \/ SlotsRaise(s.MAX_FAXES)
    IN IF raised THEN [raised |-> TRUE, c |-> NoRecord]
       ELSE [raised |-> FALSE,
             c |-> [ID |-> md.id,
                    Nazvanie |-> safe_str(IF md.name # "" THEN md.name ELSE props.name),
                    Adres |-> adr.address,
                    Indeks |-> adr.postal,
                    Dolgota |-> xy.lon,
                    Shirota |-> xy.lat,
                    Site |-> safe_str(md.url),
                    Telefon |-> SlotsOf(pick_n(con.phones, s.MAX_PHONES)),
                    Email |-> SlotsOf(pick_n(con.emails, s.MAX_EMAILS)),
                    Rezhim_raboty |-> parse_hours_meta(md),
                    Rejting |-> _format_rating_1(md.rating),
                    Kolichestvo_otzyvov |-> safe_str(md.reviewCount),
                    Kategoriya |->
                        SlotsOf(pick_n(SubSeq(cat.names, 1,
                                              Min(Len(cat.names), s.MAX_CATEGORIES_MAIN)),
                                       s.MAX_CATEGORIES_MAIN)),
                    Osobennosti |-> parse_features_meta(md),
                    uri |-> safe_str(props.uri),
                    Faks |-> SlotsOf(pick_n(con.faxes, s.MAX_FAXES)),
                    Kategorii_prochie |->
                        safe_join(DropFirst(cat.names, s.MAX_CATEGORIES_MAIN)),
                    raw_json |-> FeatureJson]]

\* search_bbox lines 404-406: "if not c or not c.ID: continue"
RowDropped(r) == r.raised \/ r.c.ID = <<>>

\* a feature with every substructure well formed
GoodCompanyMetaData ==
    [type |-> "dict", id |-> <<"1">>, name |-> "Cafe", address |-> "",
     Address |-> [type |-> "dict", formatted |-> "Main st 1", postalCode |-> "101000"],
     Phones |-> ListOf(<<Contact("p1", ""), Contact("e1", "email"), Contact("f1", "fax")>>),
     Categories |-> ListOf(<<Category("c1")>>),
     Hours |-> [type |-> "dict", text |-> "daily 9-18", av |-> [type |-> "absent", text |-> ""]],
     Features |-> [type |-> "list", text |-> "wifi: yes"],
     rating |-> <<"4", ".", "9">>, reviewCount |-> "12", url |-> "https://cafe.example"]
GoodFeature ==
    [properties |-> [type |-> "dict", name |-> "", description |-> "", uri |-> "ymapsbm1://org?oid=1",
                     CompanyMetaData |-> GoodCompanyMetaData],
     geometry |-> [type |-> "dict",
                   coordinates |-> [type |-> "list", items |-> <<"37.6", "55.7">>]]]

\* GoodFeature with the substructure "part" of the type t (absent: missing)
WithPart(part, t) ==
    CASE part = "contacts" ->
           [GoodFeature EXCEPT !.properties.CompanyMetaData.Phones = WrongList(t)]
      [] part = "categories" ->
           [GoodFeature EXCEPT !.properties.CompanyMetaData.Categories = WrongList(t)]
      [] part = "hours" ->
           [GoodFeature EXCEPT !.properties.CompanyMetaData.Hours = [NoHours EXCEPT !.type = t]]
      [] part = "availabilities" ->
           [GoodFeature EXCEPT !.properties.CompanyMetaData.Hours =
                [type |-> "dict", text |-> "", av |-> [type |-> t, text |-> ""]]]
      [] part = "features" ->
           [GoodFeature EXCEPT !.properties.CompanyMetaData.Features =
                [NoFeatures EXCEPT !.type = t]]
      [] part = "address" ->
           [GoodFeature EXCEPT !.properties.CompanyMetaData.Address =
                [NoAddress EXCEPT !.type = t]]
      [] part = "geometry" ->
           [GoodFeature EXCEPT !.geometry = [NoGeometry EXCEPT !.type = t]]
      [] part = "coordinates" ->
           [GoodFeature EXCEPT !.geometry.coordinates =
                [type |-> t, items |-> IF t = "string" THEN <<"a", "b">> ELSE <<>>]]
      [] part = "metadata" ->
           [GoodFeature EXCEPT !.properties.CompanyMetaData =
                [NoCompanyMetaData EXCEPT !.type = t]]
      [] part = "properties" ->
           [GoodFeature EXCEPT !.properties = [NoProperties EXCEPT !.type = t]]

\* the type each substructure has when it is well formed
Parts ==
    {"contacts", "categories", "hours", "availabilities", "features", "address",
     "geometry", "coordinates", "metadata", "properties"}
RightType(part) ==
    IF part \in {"contacts", "categories", "availabilities", "features", "coordinates"}
    THEN "list" ELSE "dict"

\* a list whose elements are not all well formed: scalars, and a contact and
\* a category whose text is blank
MixedFeature ==
    [GoodFeature EXCEPT
        !.properties.CompanyMetaData.Phones =
            ListOf(<<NotDictItem, Contact(" ", ""), Contact("p1", "")>>),
        !.properties.CompanyMetaData.Categories =
            ListOf(<<NotDictItem, Category(" "), Category("c1")>>)]

\* features with k phones, emails, faxes and categories, the first of each
\* given twice
PhoneNames == <<"p1", "p2", "p3", "p4", "p5">>
EmailNames == <<"e1", "e2", "e3", "e4", "e5">>
FaxNames == <<"f1", "f2", "f3", "f4", "f5">>
CategoryNames == <<"c1", "c2", "c3", "c4", "c5">>
ItemCounts == {0, 1, 2, 3, 4, 5}
Twice(items) == IF items = <<>> THEN <<>> ELSE <<Head(items)>> \o items
ContactsList(k) ==
    Twice([i \in 1..k |-> Contact(PhoneNames[i], "phone")])
    \o Twice([i \in 1..k |-> Contact(EmailNames[i], "Email")])
    \o Twice([i \in 1..k |-> Contact(FaxNames[i], "fax")])
FeatureWith(k) ==
    [GoodFeature EXCEPT
        !.properties.CompanyMetaData.Phones = ListOf(ContactsList(k)),
        !.properties.CompanyMetaData.Categories =
            ListOf(Twice([i \in 1..k |-> Category(CategoryNames[i])]))]

\* the column settings: MAX_PHONES, MAX_EMAILS, MAX_FAXES and
\* MAX_CATEGORIES_MAIN, 3 by default, varied one at a time and together
ColumnCounts == {1, 2, 3, 4}
ColumnSettings ==
    {s \in [MAX_PHONES : ColumnCounts, MAX_EMAILS : ColumnCounts, MAX_FAXES : ColumnCounts,
            MAX_CATEGORIES_MAIN : ColumnCounts] :
        \/ Cardinality({a \in DOMAIN s : s[a] # 3}) <= 1
        \/ \A a \in DOMAIN s : s[a] = s.MAX_PHONES}
DefaultColumns == CHOOSE s \in ColumnSettings : \A a \in DOMAIN s : s[a] = 3

NoCompanyResult == [raised |-> FALSE, c |-> NoRecord]
FeatureInputs ==
    {[op |-> "company_from_feature", stage |-> "", part |-> p, type |-> t,
      feature |-> WithPart(p, t), s |-> DefaultColumns, res |-> NoCompanyResult] :
        p \in Parts, t \in JTypes}
    \cup
    {[op |-> "company_from_feature", stage |-> "", part |-> "", type |-> "",
      feature |-> f, s |-> s, res |-> NoCompanyResult] :
        f \in {MixedFeature} \cup {FeatureWith(k) : k \in ItemCounts}, s \in ColumnSettings}

\* the values _format_rating_1 is applied to, as str() gives them: numbers
\* (4.900000095367432 is the float32 nearest to 4.9, as the provider sends
\* it), texts with a comma or a dot, texts that are not numbers, and None
RatingInputs ==
    {<<"4", ".", "9", "0", "0", "0", "0", "0", "0", "9", "5", "3", "6", "7", "4", "3", "2">>,
     <<"4", ",", "9">>, <<"4", ".", "9">>, <<" ", "4", ",", "9", " ">>,
     <<"5">>, <<"0">>, <<"1", "0">>, <<"5", ".">>, <<".", "5">>, <<"+", "3">>,
     <<"4", ".", "9", "6">>, <<"9", ",", "9", "6">>, <<"4", ".", "2", "5">>,
     <<"4", ".", "7", "5">>, <<"4", ",", "0", "4">>, <<"-", "0", ".", "0", "4">>,
     <<>>, <<" ">>, <<"a", "b", "c">>, <<"4", ",", "9", ",", "1">>, <<"4", " ", ",", "9">>,
     <<".">>, <<"-">>, <<"T", "r", "u", "e">>,
     <<"n", "a", "n">>, <<"N", "a", "N">>, <<"i", "n", "f">>, <<"-", "i", "n", "f">>}
FormatInputs ==
    {[op |-> "_format_rating_1", stage |-> "", x |-> x, res |-> <<>>, again |-> <<>>] :
        x \in RatingInputs}

\* a test that never finds the trunk prefix
LeadingEight_Never(digits) == FALSE

\* normalize_phone_ru line 39: len(digits) == 11 and digits.startswith("8")
LeadingEight(digits) == Len(digits) = 11 /\ Head(digits) = "8"

\* normalize_phone_ru
normalize_phone_ru(x) ==
    LET s == Strip(x)
        d0 == DigitsOf(s)
        d1 == IF LeadingEight(d0) THEN <<"7">> \o Tail(d0) ELSE d0
        d2 == IF Len(d1) = 10 THEN <<"7">> \o d1 ELSE d1
    IN IF s = <<>> THEN <<>>
       ELSE IF Len(d2) = 11 /\ Head(d2) = "7" THEN <<"+">> \o d2
       ELSE s

\* the numbers normalize_phone_ru is applied to: a subscriber number of ten
\* digits behind a prefix, written plainly, with blanks around it or with
\* separators in it; and texts that hold fewer digits or none
Subscriber(d) == <<d, "9", "9", "1", "1", "1", "2", "2", "3", "3">>
PhonePrefixes ==
    {<<>>, <<"8">>, <<"7">>, <<"+", "7">>, <<"+", "8">>, <<"1">>, <<"8", "8">>}
Written(s, how) ==
    CASE how = "plain" -> s
      [] how = "blanks" -> <<" ">> \o s \o <<" ">>
      [] how = "separators" ->
           SubSeq(s, 1, Len(s) - 7) \o <<" ", "(">> \o SubSeq(s, Len(s) - 6, Len(s) - 4)
           \o <<")", "-">> \o SubSeq(s, Len(s) - 3, Len(s))
PhoneTexts ==
    {Written(p \o Subscriber(d), how) :
        p \in PhonePrefixes, d \in {"9", "8", "7", "0"}, how \in {"plain", "blanks", "separators"}}
    \cup {<<>>, <<" ">>, <<"a", "b", "c">>, <<"1", "1", "2">>, Tail(Subscriber("9")),
          <<"+", "7", " ">> \o Tail(Subscriber("9"))}
PhoneInputs ==
    {[op |-> "normalize_phone_ru", stage |-> "", x |-> x, res |-> <<>>, again |-> <<>>] :
        x \in PhoneTexts}

\* the pages requests_is_blocked is applied to: a final URL with and without
\* "showcaptcha", and a body with any of the three challenge markers and with
\* a form and a script of another kind
BodyMarkers == {"form", "iframe", "phrase", "other_form", "captcha_script"}
BlockedInputs ==
    {[op |-> "requests_is_blocked", stage |-> "", final_url_showcaptcha |-> u,
      html |-> [NoDoc EXCEPT !.origin = "requests", !.markers = m], res |-> FALSE] :
        u \in BOOLEAN, m \in SUBSET BodyMarkers}

ParseInit ==
    /\ ProgramStart
    /\ st = DefaultSettings
    /\ fn \in FeatureInputs \cup FormatInputs \cup PhoneInputs
             \cup BlockedInputs

\* company_from_feature on one feature
ApplyCompanyFromFeature ==
    /\ fn.op = "company_from_feature" /\ fn.stage = ""
    /\ fn' = [fn EXCEPT !.stage = "done", !.res = CompanyOf(fn.feature, fn.s)]
    /\ UNCHANGED programVars

\* _format_rating_1 on a value, and then on its own result
ApplyFormatRating ==
    /\ fn.op = "_format_rating_1" /\ fn.stage = ""
    /\ fn' = [fn EXCEPT !.stage = "once", !.res = _format_rating_1(fn.x)]
    /\ UNCHANGED programVars

ApplyFormatRatingAgain ==
    /\ fn.op = "_format_rating_1" /\ fn.stage = "once"
    /\ fn' = [fn EXCEPT !.stage = "done", !.again = _format_rating_1(fn.res)]
    /\ UNCHANGED programVars

\* normalize_phone_ru on a text, and then on its own result
ApplyNormalizePhone ==
    /\ fn.op = "normalize_phone_ru" /\ fn.stage = ""
    /\ fn' = [fn EXCEPT !.stage = "once", !.res = normalize_phone_ru(fn.x)]
    /\ UNCHANGED programVars

ApplyNormalizePhoneAgain ==
    /\ fn.op = "normalize_phone_ru" /\ fn.stage = "once"
    /\ fn' = [fn EXCEPT !.stage = "done", !.again = normalize_phone_ru(fn.res)]
    /\ UNCHANGED programVars

\* requests_is_blocked on one fetched page
ApplyRequestsIsBlocked ==
    /\ fn.op = "requests_is_blocked" /\ fn.stage = ""
    /\ fn' = [fn EXCEPT !.stage = "done",
                        !.res = requests_is_blocked(fn.final_url_showcaptcha, fn.html)]
    /\ UNCHANGED programVars

ParseNext ==
    \/ ApplyCompanyFromFeature
    \/ ApplyFormatRating
    \/ ApplyFormatRatingAgain
    \/ ApplyNormalizePhone
    \/ ApplyNormalizePhoneAgain
    \/ ApplyRequestsIsBlocked

ParseSpec == ParseInit /\ [][ParseNext]_vars

\* ==================================================================== claims
IdsOf(cs) == [i \in 1..Len(cs) |-> cs[i].ID]
SearchReturned == pc = "searched"
InSearch == pc \in {"loop", "get", "after_loop", "searched"}

\* C1: when search_bbox returns, no two records of the returned list share an
\* ID and every returned record has a non-empty ID, whatever the pages held
\* (organizations repeated within a page or across pages included).
C1_UniqueIds ==
    SearchReturned =>
        /\ \A i, j \in 1..Len(out) : i # j => out[i].ID # out[j].ID
        /\ \A i \in 1..Len(out) : out[i].ID # <<>>

\* C1 witness: a search that dropped a repeated organization has returned two
\* organizations collected over two pages.
C1_Witness ==
    SearchReturned /\ dup_dropped /\ Len(out) = 2 /\ pages_ok >= 2

\* C2: once a page response holds strictly fewer features than the request
\* asked for, no further page request is issued and the search ends with an
\* empty error string.
C2_ShortPageEnds ==
    short_page => pc \in {"after_loop", "searched"} /\ err = EmptyStr

\* C2 witness: a non-empty short page ended a search of two pages.
C2_Witness ==
    SearchReturned /\ short_page /\ pages_ok = 2 /\ Len(out) > 0

\* C3 (as claimed): a search that made k successful page requests slept k-1
\* times between pages, never after the last page request.
C3_SleepsBetweenPages ==
    (SearchReturned /\ pages_ok >= 1) => page_sleeps = pages_ok - 1

\* C4: with an empty API key search_bbox issues no request and makes no retry;
\* it returns an empty list, empty metadata and a non-empty error.
C4_NoKeyNoRequest ==
    st.YMAPIKEY = "" =>
        /\ pc \notin {"loop", "get", "after_loop"}
        /\ gets = 0 /\ pages_ok = 0 /\ attempt = 0 /\ backoff_sleeps = <<>>
        /\ pc # "start" => out = <<>> /\ meta = NoMeta /\ err # EmptyStr

\* C4 witness: a search without a key has returned.
C4_Witness ==
    SearchReturned /\ st.YMAPIKEY = ""

\* the outcomes of a page request the claim C5 calls transient: 429, any 5xx,
\* a timeout or a connection error
C5_ClaimedTransient(r) ==
    \/ r.kind = "failure"
    \/ r.kind = "http" /\ (r.status = 429 \/ (r.status >= 500 /\ r.status <= 599))

\* C5 (as claimed): a page request answered by 429 or any 5xx status, or failed
\* by a timeout or connection error, fails the page only when the attempt
\* limit is reached; before that it is retried after a backoff sleep.
C5_AnyFiveXXRetried ==
    /\ (pc = "after_loop" /\ C5_ClaimedTransient(last_resp)) =>
           err.text = "retry_failed" /\ gets = MaxAttempts
    /\ (pc = "get" /\ gets > 0) => Len(backoff_sleeps) = gets

\* the outcomes the code retries
C5_Transient(r) ==
    \/ r.kind = "failure"
    \/ r.kind = "http" /\ r.status \in {429, 500, 502, 503, 504}

\* C5 (amended): a page request answered by 429, 500, 502, 503 or 504, or
\* failed by a timeout or connection error, is retried after a backoff sleep
\* as long as the attempt limit is not reached; only the sixth such outcome
\* fails the page.
C5_TransientRetried ==
    /\ (pc = "after_loop" /\ C5_Transient(last_resp)) =>
           err.text = "retry_failed" /\ gets = MaxAttempts
    /\ (pc = "get" /\ gets > 0) =>
           /\ C5_Transient(last_resp)
           /\ gets < MaxAttempts
           /\ attempt = gets + 1
           /\ Len(backoff_sleeps) = gets

\* C5 witness: a request answered 429 twice is waiting for its third attempt.
C5_Witness ==
    pc = "get" /\ attempt = 3 /\ last_resp.status = 429 /\ Len(backoff_sleeps) = 2

\* a non-transient 4xx response
C6_ClientError(r) ==
    r.kind = "http" /\ r.status >= 400 /\ r.status <= 499 /\ r.status # 429

C7_PartialKept ==
    /\ (SearchReturned /\ err.text = "retry_failed") =>
           /\ {out[i].ID : i \in 1..Len(out)} = seen
           /\ Len(out) = Cardinality(seen)
           /\ meta.total = Len(out)
           /\ err # EmptyStr
    /\ (pc = "done" /\ err.text = "retry_failed") =>
           /\ workbook.saves = 1
           /\ IdsOf(workbook.companies) = IdsOf(out)
           /\ workbook.request_meta.error = err
           /\ workbook.request_meta.partial
           /\ request_meta.rows = Len(out)

\* C7 witness: a run whose second page exhausted its retries has saved the
\* organization of the first page.
C7_Witness ==
    pc = "done" /\ err.text = "retry_failed" /\ Len(out) >= 1
      /\ Len(workbook.companies) >= 1

\* C8: no request carries an offset above the provider ceiling of 1000; the
\* search ends with stopped_by = 'api_skip_limit' exactly when the offset has
\* passed the ceiling before the result cap was reached, and then the error
\* string is empty.
C8_SkipCeiling ==
    /\ pc = "get" => params.skip <= 1000
    /\ (SearchReturned /\ st.YMAPIKEY # "") =>
           /\ meta.stopped_by = "api_skip_limit" <=>
                  (skip > 1000 /\ (st.MAX_SKIP > 0 => Len(out) < st.MAX_SKIP))
           /\ meta.stopped_by = "api_skip_limit" => err = EmptyStr
           /\ meta.stopped_by \in {"api_skip_limit", "normal"}

\* C8 witness: a search has stopped at the provider ceiling.
C8_Witness ==
    SearchReturned /\ meta.stopped_by = "api_skip_limit" /\ skip > 1000

C10_RenderOnceWhenBlocked ==
    /\ render_calls <= 1
    /\ pc = "render" => requests_is_blocked(fetched.showcaptcha, fetched.html)
    /\ (pc \notin {"web_get", "render"} /\ fetched # NoFetch) =>
           IF requests_is_blocked(fetched.showcaptcha, fetched.html)
           THEN /\ render_calls = 1
                /\ parsed # NoDoc => parsed.origin = "selenium" /\ parsed # fetched.html
           ELSE /\ render_calls = 0
                /\ parsed = fetched.html

\* C10 witness: an organization whose fetch was blocked was rendered once and
\* its fields were extracted from the rendered page.
C10_Witness ==
    pc = "enrich_loop" /\ render_calls = 1 /\ parsed.origin = "selenium"
      /\ "form" \in fetched.html.markers

\* ------------------------------------------------------------- enrichment
InEnrich == pc \in {"enrich_loop", "web_get", "render", "enrich_end"}
ErrorTexts == {stats.errors[i].text : i \in 1..Len(stats.errors)}
NonDigit(cs) == {k \in 1..Len(cs) : ~IsDigit(cs[k].ID)}

\* C11: in enrich_companies_web a failure while enriching one organization
\* (a non-transient HTTP status, exhausted fetch retries, a persistent
\* challenge) adds one to the failed count and one error entry for that
\* organization, and the loop goes on: between organizations everything before
\* idx is accounted for, and the function returns only after the last one.
C11_FailureIsolated ==
    /\ stats.failed = Len(stats.errors)
    /\ \A i \in 1..Len(stats.errors) :
           \E k \in 1..Len(companies) : k <= idx /\ companies[k].ID = stats.errors[i].oid
    /\ pc = "enrich_loop" =>
           /\ idx <= Len(companies) + 1
           /\ stats.attempted + stats.skipped = idx - 1
           /\ stats.success + stats.failed = stats.attempted
    /\ pc = "enrich_end" =>
           /\ idx = Len(companies) + 1
           /\ stats.attempted + stats.skipped = Len(companies)

\* C11 witness: the first of two organizations failed with an HTTP status and
\* the second one was enriched after it.
C11_Witness ==
    pc = "enrich_end" /\ Len(companies) = 2 /\ stats.failed = 1
      /\ stats.errors[1] = [oid |-> companies[1].ID, text |-> "WEB HTTP"]
      /\ companies[2].web_enrich.ok /\ stats.success = 1

\* C12: a browser-launch failure during escalation (executable missing, or
\* the debug endpoint not ready in time) leaves enrich_companies_web and ends
\* the enrichment phase: after it no organization is fetched or escalated.
C12_LaunchFailureEndsPhase ==
    (ErrorTexts \cap LaunchErrors # {}) => pc \notin {"web_get", "render"}

\* C13: an organization whose ID is not empty and not numeric is skipped
\* without a fetch or a render and without a change of its record, and the
\* statistics count it under skipped, not under attempted or success.
C13_NonDigitSkipped ==
    (pc = "enrich_end" /\ st.WEB_MAX_ITEMS = 0) =>
        /\ stats.skipped = Cardinality(NonDigit(companies))
        /\ stats.attempted = Len(companies) - Cardinality(NonDigit(companies))
        /\ \A k \in NonDigit(companies) : companies[k].web_enrich = NoTrace

\* ----------------------------------------------------------- SeleniumPool
\* the run has left its web enrichment
EnrichOver ==
    pc = "interrupted" \/ (pc \in {"save", "done"} /\ request_meta.enrich_stats = "web")
ReadyTimeouts == Cardinality({i \in 1..Len(stats.errors) : stats.errors[i].text = NotReady})
\* the pool the last recorded call was made on
CallPool == IF pc \in {"enrich_loop", "web_get", "render", "enrich_end"} THEN pool ELSE live_pool

\* C14 as claimed: in a run that performs web enrichment close() runs exactly
\* once, at the end of the run, or not at all under the keep-open policy.
C14_ClosedExactlyOnce ==
    /\ InEnrich => close_calls = 0
    /\ EnrichOver =>
           close_calls = IF st.MODE = "SELENIUM" /\ st.SELENIUM_KEEP_CHROME_OPEN
                         THEN 0 ELSE 1

\* C14 as amended: pipeline.run calls close() exactly once when the web
\* enrichment has ended, normally or by an exception, and not at all under
\* the keep-open policy; besides that, ensure() calls close() once for every
\* launched browser that did not become ready.
C14_ClosedOnceByRun ==
    /\ InEnrich => close_calls = ReadyTimeouts /\ ~last_close.called
    /\ EnrichOver =>
           IF st.MODE = "SELENIUM" /\ st.SELENIUM_KEEP_CHROME_OPEN
           THEN close_calls = ReadyTimeouts /\ ~last_close.called
           ELSE /\ close_calls = ReadyTimeouts + 1
                /\ last_close.called
                /\ pool.driver = NoProc

\* C14 witness: a run whose first escalation timed out at the launch has
\* ended its enrichment with two close() calls, one of them made by run.
C14_Witness ==
    EnrichOver /\ st.MODE = "ONLINEAPI" /\ ReadyTimeouts = 1 /\ close_calls = 2
      /\ last_close.called

\* C15: when the pool launched the browser process itself and the keep-open
\* policy is not in force, the process is terminated by close(), after every
\* sequence of ensure() and get_page_html() calls, failed ones included: once
\* run has closed the pool, no process launched by that pool is running.
C15_LaunchedProcessTerminated ==
    (EnrichOver /\ last_close.called) =>
        \A n \in 1..chrome.launched : Launched("web", n) \notin chrome.running

\* C16: close() on a pool that is attached to a debug browser it did not
\* launch terminates no process, whatever CLOSE_EXISTING_DEBUG_CHROME is; the
\* flag decides only whether the warning is logged.
C16_AttachedNeverTerminated ==
    (last_close.called /\ last_close.pool.driver = ExtChrome) =>
        /\ ~last_close.pool.started_by_us
        /\ last_close.terminated = {}
        /\ ExtChrome \in chrome.running
        /\ last_close.warned <=> st.CLOSE_EXISTING_DEBUG_CHROME

\* C16 witness: run has closed a pool that was attached to a browser running
\* before, with CLOSE_EXISTING_DEBUG_CHROME set.
C16_Witness ==
    last_close.called /\ last_close.pool.driver = ExtChrome
      /\ st.CLOSE_EXISTING_DEBUG_CHROME /\ last_close.warned
      /\ ExtChrome \in chrome.running

\* C17: an ensure() that probes the endpoint calls the launch exactly when the
\* probe failed; a process exists only after such a launch; after a launch the
\* driver is created only if the endpoint answered; and when it did not answer
\* in time the call raises and the pool has no driver.
C17_LaunchIffProbeFails ==
    (last_call.called /\ last_call.probed) =>
        /\ last_call.launch_called <=> ~last_call.alive
        /\ last_call.spawned # NoProc => last_call.launch_called
        /\ (last_call.launch_called /\ last_call.connected) => last_call.answered
        /\ (last_call.spawned # NoProc /\ ~last_call.answered) =>
               /\ last_call.raised = NotReady
               /\ ~last_call.connected
               /\ CallPool.driver = NoProc

\* C17 witness: an escalation launched a browser that did not answer in time;
\* the call raised and the pool has no driver.
C17_Witness ==
    pc = "enrich_loop" /\ last_call.probed /\ ~last_call.alive
      /\ last_call.spawned # NoProc /\ last_call.raised = NotReady
      /\ pool.driver = NoProc

\* C18: a navigation happens only with a driver connection, a challenge pause
\* only after a navigation of the same call, and no navigation or pause
\* happens once close() has run on the pool.
C18_PoolStateMachine ==
    (pc = "enrich_loop" /\ last_call.called) =>
        /\ last_call.navs > 0 => pool.driver # NoProc
        /\ last_call.pauses > 0 => last_call.navs > 0
        /\ last_call.navs > 0 => close_calls = 0

\* C19: get_page_html pauses exactly when the check after the navigation finds
\* a challenge and checks once more after the pause; when the challenge is
\* gone the page is returned and extracted, and when it is still there the
\* call raises, which fails this organization only: the batch goes on.
C19_PauseThenRecheckOnce ==
    (pc = "enrich_loop" /\ last_call.navs = 1) =>
        /\ Len(last_call.blocked) = 1 + last_call.pauses
        /\ last_call.pauses = (IF last_call.blocked[1] THEN 1 ELSE 0)
        /\ last_call.raised # "" <=> last_call.blocked = <<TRUE, TRUE>>
        /\ last_call.raised # "" =>
               /\ stats.errors[Len(stats.errors)] =
                      [oid |-> companies[idx - 1].ID, text |-> "Challenge still present"]
               /\ parsed = NoDoc
        /\ last_call.raised = "" => parsed.origin = "selenium"

\* C19 witness: a challenge was gone after the pause and the rendered page was
\* extracted; the batch is at its next organization.
C19_Witness ==
    pc = "enrich_loop" /\ last_call.navs = 1 /\ last_call.blocked = <<TRUE, FALSE>>
      /\ last_call.pauses = 1 /\ parsed.origin = "selenium"

\* C20: after a get_page_html call that opened a new tab, the tab is closed
\* and the tab that was active before is active again, also when the call
\* raised for a persistent challenge; no tab is left open by any escalation.
C20_TabRestored ==
    /\ last_call.opened_new_tab => last_call.closed_tab
    /\ chrome.tabs = 0
    /\ chrome.on_original

\* the SeleniumPool objects the run has constructed so far
LivePoolCreated == st.MODE = "SELENIUM" /\ pc # "start"
EnrichPoolCreated == InEnrich \/ EnrichOver
PoolsCreated ==
    (IF LivePoolCreated THEN 1 ELSE 0) + (IF EnrichPoolCreated THEN 1 ELSE 0)
\* the pools that hold a webdriver connection
PoolsConnected ==
    (IF live_pool.driver # NoProc THEN 1 ELSE 0) + (IF pool.driver # NoProc THEN 1 ELSE 0)

\* C21: a run constructs at most one SeleniumPool, and at most one webdriver
\* connection exists, for all of its browser work, in every MODE and every
\* OFFLINE_ENRICH_MODE.
C21_OneSession ==
    /\ PoolsCreated <= 1
    /\ PoolsConnected <= 1

\* C22: set_if_needed on a field the record has. Under overwrite = FALSE a
\* non-empty field is never changed; under overwrite = TRUE the field becomes
\* the new value (stripped) whenever the new value is non-empty; under both
\* an empty new value leaves the field as it is; the returned count is 1
\* exactly when the field was written, and no other field changes.
C22_SetIfNeeded ==
    fn.op = "set_if_needed" /\ fn.stage = "done" /\ fn.attr \in DOMAIN fn.c =>
        LET cur == fn.c[fn.attr]
            new == safe_str(fn.value)
            after == fn.res.c[fn.attr]
        IN /\ ~fn.res.raised
           /\ (~fn.overwrite /\ cur # "" => after = cur)
           /\ (fn.overwrite /\ new # "" => after = new)
           /\ (new = "" => after = cur)
           /\ fn.res.changed \in {0, 1}
           /\ (fn.res.changed = 1 <=> new # "" /\ (fn.overwrite \/ cur = ""))
           /\ (fn.res.changed = 1 => after = new)
           /\ (fn.res.changed = 0 => after = cur)
           /\ \A a \in DOMAIN fn.c \ {fn.attr} : fn.res.c[a] = fn.c[a]

\* a non-empty field was kept under fill-only although a new value was offered
C22_Witness ==
    /\ fn.op = "set_if_needed" /\ fn.stage = "done"
    /\ fn.attr = "Site" /\ fn.c.Site = "old" /\ fn.value = " new " /\ ~fn.overwrite
    /\ fn.res.c.Site = "old" /\ fn.res.changed = 0

\* C23: enrichment never replaces non-empty opening hours, whatever
\* WEB_FORCE_OVERWRITE is: neither the API step nor the web step changes a
\* non-empty Rezhim_raboty, and the web step writes the hours of the page
\* only into an empty field.
C23_HoursFillOnly ==
    fn.op = "enrich" =>
        /\ (fn.c0.Rezhim_raboty # "" => fn.c.Rezhim_raboty = fn.c0.Rezhim_raboty)
        /\ (fn.before_web.Rezhim_raboty # ""
               => fn.c.Rezhim_raboty = fn.before_web.Rezhim_raboty)
        /\ (fn.stage = "web" /\ fn.c.Rezhim_raboty # fn.before_web.Rezhim_raboty
               => /\ fn.before_web.Rezhim_raboty = ""
                  /\ fn.c.Rezhim_raboty = safe_str(fn.html.worktime))

\* under WEB_FORCE_OVERWRITE the web step replaced the site of the search and
\* kept its opening hours, although the page holds other hours
C23_Witness ==
    /\ fn.op = "enrich" /\ fn.stage = "web" /\ st.WEB_FORCE_OVERWRITE
    /\ ~fn.web_raised
    /\ fn.before_web.Site = "https://search.example" /\ fn.c.Site = "https://web.example"
    /\ fn.html.worktime = "web hours"
    /\ fn.before_web.Rezhim_raboty = "search hours" /\ fn.c.Rezhim_raboty = "search hours"

\* the value the DOM step holds for a field (it has none for the rating)
DomValue(html, f) == IF f = "rating" THEN "" ELSE html.dom[f]

\* C24: for each of rating, rating count and review count the value extracted
\* from a page is the first non-empty value in the order JSON-LD, embedded
\* JSON, DOM, regular expressions over the raw markup: a later source is used
\* only if every earlier one is empty for that field.
C24_TierOrder ==
    fn.op = "rating_counts" /\ fn.stage = "done" =>
        \A f \in RatingFields :
            fn.res[f] = FirstOf(fn.html.ld[f],
                                FirstOf(fn.html.emb[f],
                                        FirstOf(DomValue(fn.html, f), fn.html.rx[f])))

\* C25: rating count and review count are two fields of the record: when
\* the page yields a rating count, the web step stores it in the rating-count
\* field, leaves the review count to what the page yields for reviews (here
\* nothing, so it stays as it was), and the organization is counted as
\* succeeded.
C25_RatingCountStored ==
    fn.op = "enrich" /\ fn.stage = "web" /\ RatingCounts(fn.html).rating_count # "" =>
        /\ ~fn.web_raised
        /\ "Kolichestvo_ocenok" \in DOMAIN fn.c
        /\ fn.c["Kolichestvo_ocenok"] = RatingCounts(fn.html).rating_count
        /\ fn.c.Kolichestvo_otzyvov = fn.before_web.Kolichestvo_otzyvov
        /\ fn.stats.success = 1 /\ fn.stats.failed = 0

\* the fields the web step wrote: a non-empty page value under the policy of
\* the field
PageValue(html, a) ==
    CASE a = "Site" -> safe_str(html.site)
      [] a = "Rejting" -> RatingCounts(html).rating
      [] a = "Kolichestvo_otzyvov" -> RatingCounts(html).review_count
      [] a = "Rezhim_raboty" -> safe_str(html.worktime)
WrittenFields(before, html, overwrite) ==
    {a \in {"Site", "Rejting", "Kolichestvo_otzyvov", "Rezhim_raboty"} :
        /\ PageValue(html, a) # ""
        /\ (before[a] = "" \/ (overwrite /\ a # "Rezhim_raboty"))}
CorruptionMarkers == {"raw_json_parse_error", "raw_json_not_dict"}
\* the web step went through to its end
WebSucceeded == fn.op = "enrich" /\ fn.stage = "web" /\ ~fn.web_raised
\* raw_json is an object with the web_enrich marker of this enrichment
TraceMarked ==
    /\ fn.c.raw_json.form = "object"
    /\ "web_enrich" \in fn.c.raw_json.keys
    /\ fn.c.web_enrich =
          [ok |-> TRUE, used_selenium |-> FALSE,
           changed |-> Cardinality(WrittenFields(fn.before_web, fn.html,
                                                 st.WEB_FORCE_OVERWRITE))]

\* C26 as claimed: after a successful enrichment raw_json is an object that
\* keeps every key it had and gains web_enrich with used_selenium and the
\* change count; a raw_json that was not valid JSON, or not an object, is
\* replaced by an object with a corruption marker and web_enrich; no error is
\* raised.
C26_TraceUpdated ==
    /\ (fn.op = "enrich" /\ fn.stage = "web" /\ RatingCounts(fn.html).rating_count = ""
          => ~fn.web_raised)
    /\ (WebSucceeded =>
          /\ TraceMarked
          /\ (fn.before_web.raw_json.form = "object"
                 => fn.before_web.raw_json.keys \subseteq fn.c.raw_json.keys)
          /\ (fn.before_web.raw_json.form # "object"
                 => fn.c.raw_json.keys \cap CorruptionMarkers # {}))

\* C26, amended: as claimed, except that an empty raw_json counts as an empty
\* object: it becomes an object with web_enrich alone, without a corruption
\* marker. A non-empty text that does not parse becomes an object with
\* raw_json_parse_error, raw_json_raw and web_enrich; a JSON value that is not
\* an object becomes an object with raw_json_not_dict and web_enrich.
C26_TraceUpdatedOrStarted ==
    /\ (fn.op = "enrich" /\ fn.stage = "web" /\ RatingCounts(fn.html).rating_count = ""
          => ~fn.web_raised)
    /\ (WebSucceeded =>
          LET was == fn.before_web.raw_json
              now == fn.c.raw_json
          IN /\ TraceMarked
             /\ (was.form = "object" => now.keys = was.keys \cup {"web_enrich"})
             /\ (was.form = "empty" => now.keys = {"web_enrich"})
             /\ (was.form = "malformed"
                    => now.keys = {"raw_json_parse_error", "raw_json_raw", "web_enrich"})
             /\ (was.form = "not_dict" => now.keys = {"raw_json_not_dict", "web_enrich"}))

\* a record whose raw_json did not parse was enriched: two fields were
\* written and raw_json carries the parse-error marker
C26_Witness ==
    /\ WebSucceeded
    /\ fn.before_web.raw_json.form = "malformed"
    /\ "raw_json_parse_error" \in fn.c.raw_json.keys
    /\ fn.c.web_enrich.changed = 2

\* enrich_companies_web has returned
WebStatsFinal == pc \in {"enrich_end", "save", "done"} /\ st.OFFLINE_ENRICH_MODE = "WEB"

\* C27: with WEB_MAX_ITEMS = n > 0 at most n organizations are attempted in
\* one enrich_companies_web run, every organization after them is counted as
\* skipped, and no fetch or render happens once n were attempted; with
\* WEB_MAX_ITEMS = 0 every organization with a non-empty ID is attempted.
C27_MaxItems ==
    LET n == st.WEB_MAX_ITEMS
        withId == Cardinality({k \in 1..Len(companies) : companies[k].ID # <<>>})
    IN /\ (n > 0 => stats.attempted <= n /\ done <= n)
       /\ (n > 0 /\ pc \in {"web_get", "render"} => idx <= n)
       /\ (WebStatsFinal /\ n > 0
             => /\ stats.attempted = Min(n, withId)
                /\ stats.skipped = Len(companies) - stats.attempted)
       /\ (WebStatsFinal /\ n = 0
             => stats.attempted = withId /\ stats.skipped = Len(companies) - withId)

\* with WEB_MAX_ITEMS = 1 and two organizations the run attempted the first
\* and skipped the second
C27_Witness ==
    /\ WebStatsFinal /\ st.WEB_MAX_ITEMS = 1
    /\ Len(companies) = 2
    /\ stats.attempted = 1 /\ stats.skipped = 1

\* C28: enrichment never adds, removes or reorders organizations and never
\* changes an ID: during and after enrich_companies_web, with any mix of
\* successes, failures and skips, the IDs of the list are the IDs the record
\* source returned, in the same order.
C28_IdsKept ==
    InEnrich \/ EnrichOver =>
        IdsOf(companies) =
            IF st.MODE = "ONLINEAPI" THEN IdsOf(AfterSearchCompanies(out, err)) ELSE <<>>

\* a run enriched one organization of two and failed on the other
C28_Witness ==
    /\ pc = "done" /\ EnrichOver
    /\ Len(companies) = 2
    /\ stats.success = 1 /\ stats.failed = 1
    /\ companies # AfterSearchCompanies(out, err)

\* pipeline.run is over: it returned, or an exception left it
RunOver == pc \in {"done", "crashed"}

\* C29: pipeline.run writes the workbook exactly once and returns a RunResult
\* on every path (search error, unsupported mode, record-source error,
\* failures of single organizations): it never raises, request_meta["error"]
\* holds the error of the record source, and request_meta["rows"] is the
\* number of organizations written.
C29_AlwaysSaved ==
    /\ workbook.saves <= 1
    /\ pc # "crashed"
    /\ (RunOver =>
          /\ workbook.saves = 1
          /\ request_meta.saved
          /\ request_meta.rows = Len(workbook.companies)
          /\ (st.MODE = "ONLINEAPI" => request_meta.error = err)
          /\ (st.MODE \notin {"ONLINEAPI", "OFFLINEHTML", "SELENIUM"}
                => request_meta.error = SourceError("Unsupported MODE")))

\* the fields of a record that hold values
MergeFields == {"Site", "Rejting", "Kolichestvo_otzyvov", "Rezhim_raboty"}
\* the web step of an APIWEB chain has run
ApiWebDone == fn.op = "enrich" /\ fn.stage = "web" /\ st.OFFLINE_ENRICH_MODE = "APIWEB"
\* the web step started from the record the API step left
ApiStepFirst == fn.before_web = UriRequery(st, fn.c0, fn.answer).c

FeatureParsed == fn.op = "company_from_feature" /\ fn.stage = "done"

\* the fields that are read from a substructure are empty
PartEmpty(part, c) ==
    CASE part = "contacts" -> c.Telefon = NoSlots /\ c.Email = NoSlots /\ c.Faks = NoSlots
      [] part = "categories" -> c.Kategoriya = NoSlots /\ c.Kategorii_prochie = <<>>
      [] part \in {"hours", "availabilities"} -> c.Rezhim_raboty = ""
      [] part = "features" -> c.Osobennosti = ""
      [] part = "address" -> c.Adres = "" /\ c.Indeks = ""
      [] part \in {"geometry", "coordinates"} -> c.Dolgota = "" /\ c.Shirota = ""
      [] part \in {"metadata", "properties"} ->
           c = [NoRecord EXCEPT !.Dolgota = c.Dolgota, !.Shirota = c.Shirota,
                                !.raw_json = FeatureJson]

\* C31: company_from_feature maps a substructure of the feature that is missing
\* or of the wrong type (contacts, categories, hours, features, address,
\* geometry, metadata) to empty field values and still returns a record: it
\* does not raise, and a feature that carries an ID is not dropped from the
\* search result because one of its substructures is malformed.
C31_MalformedIsEmpty ==
    FeatureParsed /\ fn.part # "" /\ fn.type # RightType(fn.part)
        => /\ ~fn.res.raised
           /\ PartEmpty(fn.part, fn.res.c)
           /\ (fn.part \notin {"metadata", "properties"} => ~RowDropped(fn.res))

\* the distinct values of a feature, in the order of the feature
DistinctOf(feature, list) ==
    dedup_keep_order(ContactsOf(Iterate(feature.properties.CompanyMetaData.Phones).items, list))
DistinctCategories(feature) ==
    dedup_keep_order(NamesOf(Iterate(feature.properties.CompanyMetaData.Categories).items))

\* slot k of a record, "" for a slot the record does not have
SlotValue(slots, k) == IF k \in DOMAIN slots THEN slots[k] ELSE ""
\* the slots hold the first n values, padded with ""
HoldsFirst(slots, values, n) ==
    \A k \in 1..n : SlotValue(slots, k) = (IF k <= Len(values) THEN values[k] ELSE "")

\* C32: for every maximum N >= 1 of phones, emails and faxes and M >= 1 of main
\* categories, company_from_feature returns a record whose slots hold the first
\* N (M) distinct values padded with empty strings; the phones, emails and
\* faxes after the N-th are dropped and the categories after the M-th are
\* joined into the overflow string.
C32_SlotsHoldFirstN ==
    FeatureParsed /\ fn.part = ""
        => /\ ~fn.res.raised
           /\ HoldsFirst(fn.res.c.Telefon, DistinctOf(fn.feature, "phones"), fn.s.MAX_PHONES)
           /\ HoldsFirst(fn.res.c.Email, DistinctOf(fn.feature, "emails"), fn.s.MAX_EMAILS)
           /\ HoldsFirst(fn.res.c.Faks, DistinctOf(fn.feature, "faxes"), fn.s.MAX_FAXES)
           /\ HoldsFirst(fn.res.c.Kategoriya, DistinctCategories(fn.feature),
                         fn.s.MAX_CATEGORIES_MAIN)
           /\ fn.res.c.Kategorii_prochie =
                  Join(DropFirst(DistinctCategories(fn.feature), fn.s.MAX_CATEGORIES_MAIN))

\* ----------------------------------------------------------- _format_rating_1
\* a text of digits, a comma and one digit, with or without a sign
OneDecimal(s) ==
    LET body == IF s # <<>> /\ Head(s) = "-" THEN Tail(s) ELSE s
    IN /\ Len(body) >= 3
       /\ body[Len(body) - 1] = ","
       /\ \A k \in 1..Len(body) : k # Len(body) - 1 => body[k] \in Digits

\* a text that is a number: digits with at most one comma or dot among them,
\* with or without a sign and blanks around it
NumericText(x) ==
    LET s == Strip(x)
        body == IF s # <<>> /\ Head(s) \in {"+", "-"} THEN Tail(s) ELSE s
    IN /\ \E k \in 1..Len(body) : body[k] \in Digits
       /\ \A k \in 1..Len(body) : body[k] \in Digits \cup {",", "."}
       /\ Cardinality({k \in 1..Len(body) : body[k] \in {",", "."}}) <= 1

\* C33: _format_rating_1 maps every numeric input, a number or a text with a
\* comma or a dot, to the one-decimal form with a comma, and a non-numeric
\* input to the empty string; applied to its own result it returns it
\* unchanged; so every rating is empty or a one-decimal value.
C33_OneDecimalOrEmpty ==
    fn.op = "_format_rating_1"
        => /\ fn.stage \in {"once", "done"}
                => /\ (NumericText(fn.x) => OneDecimal(fn.res))
                   /\ (~NumericText(fn.x) => fn.res = <<>>)
           /\ fn.stage = "done" => fn.again = fn.res

\* ---------------------------------------------------------- normalize_phone_ru
PhoneNormalized == fn.op = "normalize_phone_ru" /\ fn.stage \in {"once", "done"}
CountryCode == <<"+", "7">>
\* the text is +7 and ten digits
Canonical(s) ==
    Len(s) = 12 /\ SubSeq(s, 1, 2) = CountryCode /\ \A k \in 3..12 : s[k] \in Digits

\* C34: normalize_phone_ru maps a number of 11 digits that begins with 8 to +7
\* and its last 10 digits, a number of 10 digits to +7 and those digits,
\* returns a number in the form +7XXXXXXXXXX unchanged, and returns its own
\* result unchanged when applied to it.
C34_PhoneCanonical ==
    /\ PhoneNormalized
        => LET d == DigitsOf(fn.x)
           IN /\ (Len(d) = 11 /\ Head(d) = "8" => fn.res = CountryCode \o Tail(d))
              /\ (Len(d) = 10 => fn.res = CountryCode \o d)
              /\ (Canonical(fn.x) => fn.res = fn.x)
    /\ fn.op = "normalize_phone_ru" /\ fn.stage = "done" => fn.again = fn.res

\* an 11-digit number that begins with 8, written with separators, was
\* normalized twice
C34_Witness ==
    /\ fn.op = "normalize_phone_ru" /\ fn.stage = "done"
    /\ fn.x = Written(<<"8">> \o Subscriber("9"), "separators")
    /\ fn.res = CountryCode \o Subscriber("9")
    /\ fn.again = fn.res

\* --------------------------------------------------------- requests_is_blocked
ChallengeMarkers == {"form", "iframe", "phrase"}

\* C35: requests_is_blocked is true if and only if the final URL contains
\* "showcaptcha" or the body holds a challenge form, a challenge iframe or the
\* challenge phrase; for a page with none of these it is false.
C35_BlockedIff ==
    fn.op = "requests_is_blocked" /\ fn.stage = "done"
        => (fn.res <=> (fn.final_url_showcaptcha
                        \/ fn.html.markers \cap ChallengeMarkers # {}))

\* a page with a clean final URL and the challenge phrase alone was classified
\* as blocked
C35_Witness ==
    /\ fn.op = "requests_is_blocked" /\ fn.stage = "done"
    /\ ~fn.final_url_showcaptcha
    /\ fn.html.markers = {"phrase", "other_form"}
    /\ fn.res

\* ------------------------------------------------------ _get_json_with_retries
RECURSIVE Pow2(_)
Pow2(n) == IF n = 0 THEN 1 ELSE 2 * Pow2(n - 1)

\* the page request in flight, or the last one of the search, met six
\* transient failures
SixFailures == InSearch /\ Len(backoff_sleeps) = 6

\* C36: a search page request is attempted at most 6 times; the sleep before
\* retry k lasts 2^(k-1) seconds, 1 second at first and twice as long after
\* every transient failure; after 6 transient failures in a row the page fails
\* with a "retry_failed" error that carries the last failure, and the search
\* ends there.
C36_SixAttemptsDoubling ==
    /\ gets <= 6 /\ attempt <= 6
    /\ Len(backoff_sleeps) <= gets
    /\ \A k \in 1..Len(backoff_sleeps) : backoff_sleeps[k] = Pow2(k - 1)
    /\ pc = "get" => Len(backoff_sleeps) = attempt - 1 /\ gets = attempt - 1
    /\ SixFailures
        => /\ pc \in {"after_loop", "searched"}
           /\ gets = 6
           /\ err = RetryFailed(last_err)
           /\ err.text = "retry_failed"
           /\ last_err = IF last_resp.kind = "failure"
                         THEN [status |-> 0, text |-> last_resp.exc]
                         ELSE [status |-> last_resp.status, text |-> Reason(last_resp.status)]

\* C36 witness: the second page of a search failed six times, the last time
\* with 500, after sleeps of 1, 2, 4, 8, 16 and 32 seconds, and the search has
\* returned with the organizations of the first page.
C36_Witness ==
    /\ SearchReturned /\ pages_ok = 1 /\ Len(out) > 0
    /\ backoff_sleeps = <<1, 2, 4, 8, 16, 32>>
    /\ last_resp.status = 500
    /\ err.text = "retry_failed"

\* ----------------------------------------------------------- http_get_org_page
\* the text of the error the step from one state to the next has recorded
NewError == IF Len(stats'.errors) > Len(stats.errors)
            THEN stats'.errors[Len(stats'.errors)].text ELSE ""

\* what holds of the attempts and sleeps of http_get_org_page in every state
FetchBounded ==
    /\ fetch_attempt <= 3
    /\ Len(web_sleeps) <= 3
    /\ \A k \in 1..Len(web_sleeps) : web_sleeps[k] = 6 * k
    /\ pc = "web_get" => Len(web_sleeps) = fetch_attempt - 1

\* what holds of every step of the fetch of one organization
FetchStep ==
    /\ pc # "web_get" /\ pc' = "web_get" => fetch_attempt' = 1 /\ web_sleeps' = <<>>
    /\ pc = "web_get" /\ NewError = "WEB HTTP"
          => /\ web_sleeps' = web_sleeps /\ fetch_attempt' = fetch_attempt
             /\ pc' = "enrich_loop" /\ idx' = idx + 1
    /\ pc = "web_get" /\ NewError = "requests failed"
          => fetch_attempt = 3 /\ Len(web_sleeps') = 3
    /\ pc = "web_get" /\ pc' = "web_get"
          => fetch_attempt' = fetch_attempt + 1 /\ Len(web_sleeps') = Len(web_sleeps) + 1

\* C37: http_get_org_page makes at most 3 GET attempts for an organization and
\* sleeps 0.6 seconds times the attempt number after each transient status or
\* timeout or connection error; a status >= 400 that is not transient fails the
\* organization at once, without a sleep or another attempt; the attempts of
\* every organization start at 1, whatever happened to the ones before it.
C37_ThreeAttemptsLinear == [] FetchBounded /\ [][FetchStep]_vars

\* C37 witness: the first organization failed after three transient failures
\* and sleeps of 0.6, 1.2 and 1.8 seconds, and the second one is at its first
\* attempt.
C37_Witness ==
    /\ pc = "web_get" /\ idx = 2 /\ fetch_attempt = 1 /\ web_sleeps = <<>>
    /\ stats.errors = <<[oid |-> companies[1].ID, text |-> "requests failed"]>>

\* ---------------------------------------------------- termination of search_bbox
SearchRunning == pc \in {"loop", "get", "after_loop"}

\* C38 as claimed: the offset advances by the page size after every full page,
\* so the k-th page request has an offset of at least (k-1) page sizes and at
\* most floor(1000 / page size) + 1 offsets are requested, each at most 6
\* times.
C38_OffsetsByPageSize ==
    pc = "get"
        => /\ pages_ok * page_size <= params.skip
           /\ pages_ok + 1 <= (API_MAX_SKIP \div page_size) + 1
           /\ attempt <= 6

\* what holds of every page request in flight
OffsetsAdvance ==
    pc = "get"
        => /\ params.results >= 1
           /\ params.results <= page_size
           /\ pages_ok <= params.skip
           /\ params.skip <= API_MAX_SKIP
           /\ attempt <= 6 /\ gets = attempt - 1
\* while the search runs the offset moves only forwards, by the number of
\* results of the request
OffsetStep ==
    SearchRunning /\ skip' # skip => skip' = skip + params.results /\ pc = "get"

\* C38, amended: search_bbox terminates for any provider behaviour and any
\* RESULTS_PER_PAGE >= 1: after every full page the offset increases by the
\* number of results requested for that page, which is the smaller of the
\* page size and the organizations still wanted and at least 1, so at most
\* 1001 offsets (0..1000) are requested, each at most 6 times.
C38_SearchTerminates ==
    /\ [] OffsetsAdvance
    /\ [][OffsetStep]_vars
    /\ (SearchRunning ~> ~SearchRunning)

\* C38 witness: with a page size of 2 and one organization still wanted, the
\* third page request asks for one result at offset 3.
C38_Witness ==
    pc = "get" /\ page_size = 2 /\ pages_ok = 2 /\ params = [results |-> 1, skip |-> 3]


\* ------------------------------------------------------- batch statistics
Entries(oid) == {i \in 1..Len(stats.errors) : stats.errors[i].oid = oid}
Holders(oid) == {k \in 1..Len(companies) : companies[k].ID = oid}
InFlight == IF pc \in {"web_get", "render"} THEN 1 ELSE 0

\* C39: when enrich_companies_web returns, attempted = success + failed,
\* attempted + skipped is the number of organizations in the list, and the
\* errors list holds one entry per failed organization (as many entries as
\* failures, and no more entries with an ID than organizations with that ID);
\* at every step before that attempted >= success + failed, the difference
\* being the one organization in work.
C39_StatsAccounted ==
    /\ pc = "enrich_end" =>
           /\ stats.attempted = stats.success + stats.failed
           /\ stats.attempted + stats.skipped = Len(companies)
           /\ Len(stats.errors) = stats.failed
           /\ \A oid \in Ids : Cardinality(Entries(oid)) <= Cardinality(Holders(oid))
    /\ InEnrich =>
           /\ stats.attempted >= stats.success + stats.failed
           /\ stats.attempted = stats.success + stats.failed + InFlight

\* C39 witness: the function returns after one organization failed and the
\* other was left out by the cap: one attempt, one failure with its entry, one
\* skipped.
C39_Witness ==
    pc = "enrich_end" /\ Len(companies) = 2
      /\ stats.attempted = 1 /\ stats.failed = 1 /\ stats.success = 0
      /\ stats.skipped = 1 /\ Len(stats.errors) = 1

\* ------------------------------------------------------ failed enrichment
WebFailed == fn.op = "enrich" /\ fn.stage = "web" /\ fn.web_raised

\* C40: when enrich_company_from_web raises for an organization, the record
\* of that organization is the record it was before the web step, raw_json
\* included.
C40_FailedRecordUntouched ==
    WebFailed => fn.c = fn.before_web

====
